---- MODULE Spec2Model ----
(***************************************************************************)
(* Longest-prefix-match table of ytinirt/lpm: a 1-bit trie (b-trie) that   *)
(* records the bindings and a fixed-stride multibit trie (m-trie) that     *)
(* serves the lookups.  The model follows src/lpm.c function by function.  *)
(* The stride and the number of levels are scaled down (the code has 8 and *)
(* 16); every shift, mask and boundary test is written in terms of them.   *)
(***************************************************************************)
EXTENDS Integers, Sequences, FiniteSets, TLC

\* ------------------------------------------------------------------------
\* Bounds of the model
\* ------------------------------------------------------------------------
LPM_STRIDE == 2
LPM_LEVEL_MAX == 3
NumData == 2
MaxData == 2
MaxFail == 1
MaxCalls == 3
MaxAdds == 2
FailCalls == 2
MaxPrune == 4

\* ------------------------------------------------------------------------
\* Derived constants
\* ------------------------------------------------------------------------
LPM_MASKLEN_MAX == LPM_LEVEL_MAX * LPM_STRIDE
MTRIE_BLOCK_ENTRY == 2 ^ LPM_STRIDE

\* (void *)NULL for data, and the null node / block pointer
NULL == 0
NullPtr == << -1 >>
\* no allocation of the call is refused
NoFail == -1

Values == 1 .. NumData
Bytes == 0 .. (MTRIE_BLOCK_ENTRY - 1)
Levels == 1 .. LPM_LEVEL_MAX

\* ------------------------------------------------------------------------
\* Bit addressing (lpm_internal.h)
\* ------------------------------------------------------------------------
\* 0x1 << (7 - (pos & 0x7))
BitMask(pos) == 2 ^ ((LPM_STRIDE - 1) - (pos % LPM_STRIDE))

BOUNDARY_BIT_POSITION_never(pos) == FALSE

BOUNDARY_BIT_POSITION(pos) == (pos % LPM_STRIDE) = (LPM_STRIDE - 1)

\* bit of a single byte under a one-bit mask, and the byte with it cleared / set
ByteBit(byte, mask) == (byte \div mask) % 2
ByteClear(byte, mask) == IF ByteBit(byte, mask) = 1 THEN byte - mask ELSE byte
ByteSet(byte, mask) == IF ByteBit(byte, mask) = 1 THEN byte ELSE byte + mask

bit_at_position(addr, pos) == ByteBit(addr[(pos \div LPM_STRIDE) + 1], BitMask(pos))

CLEAR_BIT_AT_POSITION(addr, pos) ==
    [addr EXCEPT ![(pos \div LPM_STRIDE) + 1] = ByteClear(@, BitMask(pos))]

SET_BIT_AT_POSITION(addr, pos) ==
    [addr EXCEPT ![(pos \div LPM_STRIDE) + 1] = ByteSet(@, BitMask(pos))]

\* the assert(pos < LPM_MASKLEN_MAX) of the three bit helpers
BitPosInRange(pos) == pos < LPM_MASKLEN_MAX

\* ------------------------------------------------------------------------
\* Heap objects.  A b-trie node is named by the bit path it was allocated
\* for, an m-trie block by the byte path it was allocated for; a pointer is
\* such a name or NullPtr.
\* ------------------------------------------------------------------------
ZeroBtrieNode == [data |-> NULL, child |-> [b \in 0 .. 1 |-> NullPtr]]
ZeroMtrieEntry == [data |-> NULL, base |-> NullPtr]
ZeroMtrieBlock == [i \in Bytes |-> ZeroMtrieEntry]
RECURSIVE ZeroBytes(_)
ZeroBytes(n) == IF n = 0 THEN << >> ELSE Append(ZeroBytes(n - 1), 0)
\* u8 temp_addr[LPM_LEVEL_MAX] after memset(0)
ZeroAddr == ZeroBytes(LPM_LEVEL_MAX)

ZeroStat ==
    [btrie_node_alloc_stat |-> 0, btrie_node_alloc_fail_stat |-> 0,
     mtrie_block_alloc_stat |-> 0, mtrie_block_alloc_fail_stat |-> 0,
     data_total |-> 0,
     data_per_masklen |-> [m \in 0 .. LPM_MASKLEN_MAX |-> 0]]

RemoveKeys(h, S) == [n \in (DOMAIN h) \ S |-> h[n]]

\* ------------------------------------------------------------------------
\* B-trie
\* ------------------------------------------------------------------------
\* t.budget is the number of allocations the allocator still grants before
\* it refuses one (NoFail: it never refuses).
AllocGranted(t) == t.budget # 0
SpendBudget(b) == IF b > 0 THEN b - 1 ELSE b

btrie_alloc_node(t, name) ==
    IF AllocGranted(t)
    THEN [node |-> name,
          t |-> [t EXCEPT !.bheap = (name :> ZeroBtrieNode) @@ @,
                          !.stat.btrie_node_alloc_stat = @ + 1,
                          !.budget = SpendBudget(@)]]
    ELSE [node |-> NullPtr,
          t |-> [t EXCEPT !.stat.btrie_node_alloc_fail_stat = @ + 1]]

btrie_free_node(t, p) ==
    IF p # NullPtr
    THEN [t EXCEPT !.bheap = RemoveKeys(@, {p}),
                   !.stat.btrie_node_alloc_stat = @ - 1]
    ELSE t

RECURSIVE btrie_find_node(_, _, _, _, _)
btrie_find_node(t, node, addr, masklen, pos) ==
    IF pos < masklen /\ node # NullPtr
    THEN btrie_find_node(t, t.bheap[node].child[bit_at_position(addr, pos)],
                         addr, masklen, pos + 1)
    ELSE node

\* node->data of btrie_find_data, NULL for no node
NodeData(t, node) == IF node # NullPtr THEN t.bheap[node].data ELSE NULL

btrie_find_data(t, addr, masklen) ==
    NodeData(t, btrie_find_node(t, t.btrie_root, addr, masklen, 0))

\* what btrie_add_node hands back: its return value and its out parameters
AddNodeResult(ret, t, newnode, append_point, append_bit) ==
    [ret |-> ret, t |-> t, newnode |-> newnode,
     append_point |-> append_point, append_bit |-> append_bit]

\* the while loop of btrie_add_node; ret "ABORT" is the failed assert of
\* bit_at_position(addr, pos + 1). btrie_add_child is the branch that
\* allocates place->child[bit], a the allocation's result.
RECURSIVE btrie_add_loop(_, _, _, _, _, _, _, _)
btrie_add_child(t, addr, masklen, pos, place, bit, append_point, append_bit, a) ==
    IF a.node = NullPtr
    THEN AddNodeResult("RESOURCES", [a.t EXCEPT !.bheap[place].child[bit] = NullPtr],
                       NullPtr, append_point, append_bit)
    ELSE btrie_add_loop([a.t EXCEPT !.bheap[place].child[bit] = a.node],
                        addr, masklen, pos + 1, a.node, "SUCCESS",
                        append_point, append_bit)

btrie_add_step(t, addr, masklen, pos, place, ret, append_point, append_bit, bit) ==
    IF t.bheap[place].child[bit] = NullPtr
    THEN btrie_add_child(t, addr, masklen, pos, place, bit, append_point, append_bit,
                         btrie_alloc_node(t, Append(place, bit)))
    ELSE IF ~BitPosInRange(pos + 1)
         THEN AddNodeResult("ABORT", t, NullPtr, append_point, append_bit)
         ELSE btrie_add_loop(t, addr, masklen, pos + 1,
                             t.bheap[place].child[bit], ret,
                             t.bheap[place].child[bit],
                             bit_at_position(addr, pos + 1))

btrie_add_loop(t, addr, masklen, pos, place, ret, append_point, append_bit) ==
    IF pos >= masklen
    THEN AddNodeResult(ret, t, place, append_point, append_bit)
    ELSE btrie_add_step(t, addr, masklen, pos, place, ret, append_point, append_bit,
                        bit_at_position(addr, pos))

btrie_add_node(t, addr, masklen) ==
    btrie_add_loop(t, addr, masklen, 0, t.btrie_root, "EXISTS",
                   IF masklen > 0 THEN t.btrie_root ELSE NullPtr,
                   IF masklen > 0 THEN bit_at_position(addr, 0) ELSE 0)

\* frees the appended chain; abort is the assert(0) on a node with two children
RECURSIVE btrie_del_appended(_, _)
btrie_del_appended(t, curr) ==
    IF curr = NullPtr
    THEN [abort |-> FALSE, t |-> t]
    ELSE IF t.bheap[curr].child[0] # NullPtr /\ t.bheap[curr].child[1] # NullPtr
         THEN [abort |-> TRUE, t |-> t]
         ELSE btrie_del_appended(btrie_free_node(t, curr),
                                 IF t.bheap[curr].child[0] # NullPtr
                                 THEN t.bheap[curr].child[0]
                                 ELSE t.bheap[curr].child[1])

\* __btrie_destroy_subtree: left, right, then the node; left and right are
\* read from the node before anything is freed
RECURSIVE btrie_destroy_subtree(_, _)
btrie_destroy_subtree(t, node) ==
    IF node = NullPtr
    THEN t
    ELSE btrie_free_node(
             btrie_destroy_subtree(btrie_destroy_subtree(t, t.bheap[node].child[0]),
                                   t.bheap[node].child[1]),
             node)

\* ------------------------------------------------------------------------
\* M-trie
\* ------------------------------------------------------------------------
\* One store to the m-trie memory, as another thread can observe it: kind is
\* "malloc", "memset" or "free" of a block, "data" or "base" of the entry idx
\* of a block. t.log keeps the stores of the running call in program order,
\* and among them, as "enter", each entry into __lpm_prefix_expansion with
\* its temp_root as block and its temp_bitpos as idx.
Store(kind, block, idx, data, base) ==
    [kind |-> kind, block |-> block, idx |-> idx, data |-> data, base |-> base]

\* mtrie_alloc_block without the memset of mtrie_mem_alloc
mtrie_alloc_block_raw(t, name) ==
    IF AllocGranted(t)
    THEN [base |-> name,
          t |-> [t EXCEPT !.mheap = (name :> ZeroMtrieBlock) @@ @,
                          !.log = Append(@, Store("malloc", name, 0, NULL, NullPtr)),
                          !.stat.mtrie_block_alloc_stat = @ + 1,
                          !.budget = SpendBudget(@)]]
    ELSE [base |-> NullPtr,
          t |-> [t EXCEPT !.stat.mtrie_block_alloc_fail_stat = @ + 1]]

mtrie_alloc_block(t, name) ==
    IF AllocGranted(t)
    THEN [base |-> name,
          t |-> [t EXCEPT !.mheap = (name :> ZeroMtrieBlock) @@ @,
                          !.log = @ \o << Store("malloc", name, 0, NULL, NullPtr),
                                          Store("memset", name, 0, NULL, NullPtr) >>,
                          !.stat.mtrie_block_alloc_stat = @ + 1,
                          !.budget = SpendBudget(@)]]
    ELSE [base |-> NullPtr,
          t |-> [t EXCEPT !.stat.mtrie_block_alloc_fail_stat = @ + 1]]

mtrie_mem_free(t, p) ==
    IF p # NullPtr
    THEN [t EXCEPT !.mheap = RemoveKeys(@, {p}),
                   !.log = Append(@, Store("free", p, 0, NULL, NullPtr)),
                   !.stat.mtrie_block_alloc_stat = @ - 1]
    ELSE t

\* __mtrie_free_block: entries i .. 255 of the block, then the block itself
RECURSIVE mtrie_free_block_from(_, _, _)
mtrie_free_block_from(t, base, i) ==
    IF base = NullPtr
    THEN t
    ELSE IF i >= MTRIE_BLOCK_ENTRY
         THEN mtrie_mem_free(t, base)
         ELSE IF t.mheap[base][i].base # NullPtr
              THEN mtrie_free_block_from(
                       mtrie_free_block_from(t, t.mheap[base][i].base, 0),
                       base, i + 1)
              ELSE mtrie_free_block_from(t, base, i + 1)

mtrie_free_block(t, base) == mtrie_free_block_from(t, base, 0)

\* ------------------------------------------------------------------------
\* Search
\* ------------------------------------------------------------------------
\* the while (base != NULL) loop of lpm_search_table; level counts idx++
RECURSIVE search_loop(_, _, _, _, _)
search_loop(t, addr, base, level, data) ==
    IF base = NullPtr
    THEN data
    ELSE search_loop(t, addr, t.mheap[base][addr[level + 1]].base, level + 1,
                     IF t.mheap[base][addr[level + 1]].data # NULL
                     THEN t.mheap[base][addr[level + 1]].data
                     ELSE data)

\* the end of lpm_search_table: data is what the m-trie gave
SearchResult(t, data) ==
    IF data = NULL
    THEN [data |-> t.default_data, using_default |-> 1]
    ELSE [data |-> data, using_default |-> 0]

\* lpm_search_table that reports a miss without flagging the default
lpm_search_table_noflag(t, addr) ==
    [SearchResult(t, search_loop(t, addr, t.hi256_table_base, 0, NULL))
        EXCEPT !.using_default = 0]

lpm_search_table(t, addr) ==
    SearchResult(t, search_loop(t, addr, t.hi256_table_base, 0, NULL))

lpm_check_arg(addr, masklen) ==
    IF masklen > LPM_MASKLEN_MAX
    THEN "INVALID"
    ELSE IF masklen > 0 /\ addr = NullPtr THEN "INVALID" ELSE "SUCCESS"

lpm_find_entry(t, addr, masklen) ==
    IF lpm_check_arg(addr, masklen) # "SUCCESS"
    THEN NULL
    ELSE btrie_find_data(t, addr, masklen)

\* ------------------------------------------------------------------------
\* Prefix expansion
\* ------------------------------------------------------------------------
\* the mask without the case of the boundary bit position
PatternMask_noboundary(bitpos) ==
    MTRIE_BLOCK_ENTRY - 2 ^ (LPM_STRIDE - ((bitpos + 1) % LPM_STRIDE))

\* mask of lpm_pattern_generate: the top (bitpos + 1) % 8 bits, or 0xFF
PatternMask(bitpos) ==
    IF BOUNDARY_BIT_POSITION(bitpos)
    THEN MTRIE_BLOCK_ENTRY - 1
    ELSE MTRIE_BLOCK_ENTRY - 2 ^ (LPM_STRIDE - ((bitpos + 1) % LPM_STRIDE))

\* idx & mask and idx | ~mask for a mask of leading ones
PatternFirst(idx, mask) == idx - (idx % (MTRIE_BLOCK_ENTRY - mask))
\* a pattern that runs on to the last entry of the block
PatternLast_block(idx, mask) == MTRIE_BLOCK_ENTRY - 1

PatternLast(idx, mask) == PatternFirst(idx, mask) + ((MTRIE_BLOCK_ENTRY - 1) - mask)

\* lpm_pattern_generate with a loop that stops one entry early
lpm_pattern_generate_short(block, idx, bitpos, data) ==
    [i \in Bytes |->
        IF /\ PatternFirst(idx, PatternMask(bitpos)) <= i
           /\ i < PatternLast(idx, PatternMask(bitpos))
        THEN [block[i] EXCEPT !.data = data]
        ELSE block[i]]

\* the block after lpm_pattern_generate(base, idx, bitpos, data)
lpm_pattern_generate(block, idx, bitpos, data) ==
    [i \in Bytes |->
        IF /\ PatternFirst(idx, PatternMask(bitpos)) <= i
           /\ i <= PatternLast(idx, PatternMask(bitpos))
        THEN [block[i] EXCEPT !.data = data]
        ELSE block[i]]

\* a for loop that clears each entry before it writes it
PatternStores_clear(trie, idx, bitpos, data) ==
    [k \in 1 .. 2 * (PatternLast(idx, PatternMask(bitpos))
                        - PatternFirst(idx, PatternMask(bitpos)) + 1) |->
        Store("data", trie, PatternFirst(idx, PatternMask(bitpos)) + ((k - 1) \div 2),
              IF k % 2 = 1 THEN NULL ELSE data, NullPtr)]

\* the stores of the for loop of lpm_pattern_generate on the block trie
PatternStores(trie, idx, bitpos, data) ==
    [k \in 1 .. (PatternLast(idx, PatternMask(bitpos))
                    - PatternFirst(idx, PatternMask(bitpos)) + 1) |->
        Store("data", trie, PatternFirst(idx, PatternMask(bitpos)) + k - 1, data,
              NullPtr)]

\* lpm_pattern_generate on the block trie of the table
WritePattern(t, trie, idx, bitpos, data) ==
    [t EXCEPT !.mheap[trie] = lpm_pattern_generate(@, idx, bitpos, data),
              !.log = @ \o PatternStores(trie, idx, bitpos, data)]

\* entry->data = data on the entry idx of the block trie
WriteData(t, trie, idx, data) ==
    [t EXCEPT !.mheap[trie][idx].data = data,
              !.log = Append(@, Store("data", trie, idx, data, NullPtr))]

\* idx after the switch (nextbit) of lpm_gen_combinations, and the bit
\* position handed to lpm_pattern_generate
NextbitIdx(idx, temp_bitpos, nextbit) ==
    CASE nextbit = 0 -> ByteClear(idx, BitMask(temp_bitpos + 1))
      [] nextbit = 1 -> ByteSet(idx, BitMask(temp_bitpos + 1))
      [] OTHER -> idx

NextbitPos(temp_bitpos, nextbit) ==
    IF nextbit = -1 THEN temp_bitpos ELSE temp_bitpos + 1

\* releases the blocks of levels i .. level-1 that this call allocated
RECURSIVE free_new_chain(_, _, _, _, _)
\* a refused allocation that releases nothing
free_new_chain_leak(t, trie_chain, trie_chain_alloc, i, level) == t

free_new_chain(t, trie_chain, trie_chain_alloc, i, level) ==
    IF i >= level
    THEN t
    ELSE free_new_chain(IF i \in trie_chain_alloc
                        THEN mtrie_free_block(t, trie_chain[i])
                        ELSE t,
                        trie_chain, trie_chain_alloc, i + 1, level)

\* "Build trie chain, allocate new trie block when necessary";
\* build_trie_new is the branch that allocates, a the allocation's result
RECURSIVE build_trie_chain(_, _, _, _, _, _, _)
build_trie_new(addr, trie_count, level, trie_chain, trie_chain_alloc, a) ==
    IF a.base = NullPtr
    THEN [ret |-> "RESOURCES",
          t |-> free_new_chain(a.t, trie_chain, trie_chain_alloc, 0, level),
          trie_chain |-> trie_chain,
          trie_chain_alloc |-> trie_chain_alloc]
    ELSE build_trie_chain(a.t, addr, trie_count, level + 1,
                          a.t.mheap[a.base][addr[level + 1]].base,
                          (level :> a.base) @@ trie_chain,
                          trie_chain_alloc \cup {level})

build_trie_chain(t, addr, trie_count, level, frontier_trie, trie_chain, trie_chain_alloc) ==
    IF level >= trie_count
    THEN [ret |-> "SUCCESS", t |-> t, trie_chain |-> trie_chain,
          trie_chain_alloc |-> trie_chain_alloc]
    ELSE IF frontier_trie = NullPtr
         THEN build_trie_new(addr, trie_count, level, trie_chain, trie_chain_alloc,
                             mtrie_alloc_block(t, SubSeq(addr, 1, level)))
         ELSE build_trie_chain(t, addr, trie_count, level + 1,
                               t.mheap[frontier_trie][addr[level + 1]].base,
                               (level :> frontier_trie) @@ trie_chain,
                               trie_chain_alloc)

\* "backward hook from low to high level trie block"; abort is the assert(0)
\* of the inconsistence check
RECURSIVE hook_trie_chain(_, _, _, _, _)
hook_trie_chain(t, addr, level, trie_chain, trie_chain_alloc) ==
    IF level <= 0
    THEN [abort |-> FALSE, t |-> t]
    ELSE IF level \in trie_chain_alloc
         THEN hook_trie_chain(
                  [t EXCEPT !.mheap[trie_chain[level - 1]][addr[level]].base =
                                trie_chain[level],
                            !.log = Append(@, Store("base", trie_chain[level - 1],
                                                    addr[level], NULL,
                                                    trie_chain[level]))],
                  addr, level - 1, trie_chain, trie_chain_alloc)
         ELSE IF t.mheap[trie_chain[level - 1]][addr[level]].base # trie_chain[level]
              THEN [abort |-> TRUE, t |-> t]
              ELSE hook_trie_chain(t, addr, level - 1, trie_chain, trie_chain_alloc)

\* the switch (nextbit) and the lpm_pattern_generate call that end
\* lpm_gen_combinations
gen_pattern(t, frontier_trie, idx, temp_bitpos, data, nextbit) ==
    WritePattern(t, frontier_trie, NextbitIdx(idx, temp_bitpos, nextbit),
                 NextbitPos(temp_bitpos, nextbit), data)

\* lpm_gen_combinations after the hook: h is the hook's result
gen_hooked(h, addr, trie_count, trie_chain, temp_bitpos, data, nextbit) ==
    IF h.abort
    THEN [ret |-> "ABORT", t |-> h.t]
    ELSE [ret |-> "SUCCESS",
          t |-> gen_pattern(h.t, trie_chain[trie_count - 1], addr[trie_count],
                            temp_bitpos, data, nextbit)]

\* lpm_gen_combinations after the chain is built: c is the chain's result
gen_chained(c, addr, trie_count, temp_bitpos, data, nextbit) ==
    IF c.ret # "SUCCESS"
    THEN [ret |-> c.ret, t |-> c.t]
    ELSE gen_hooked(hook_trie_chain(c.t, addr, trie_count - 1,
                                    c.trie_chain, c.trie_chain_alloc),
                    addr, trie_count, c.trie_chain, temp_bitpos, data, nextbit)

lpm_gen_combinations_deep(t, addr, temp_bitpos, data, nextbit) ==
    IF nextbit # -1 /\ BOUNDARY_BIT_POSITION(temp_bitpos)
    THEN [ret |-> "ABORT", t |-> t]
    ELSE IF temp_bitpos < LPM_STRIDE
    THEN [ret |-> "SUCCESS",
          t |-> gen_pattern(t, t.hi256_table_base, addr[1], temp_bitpos, data, nextbit)]
    ELSE gen_chained(build_trie_chain(t, addr, (temp_bitpos \div LPM_STRIDE) + 2, 0,
                                      t.hi256_table_base, << >>, {}),
                     addr, (temp_bitpos \div LPM_STRIDE) + 2, temp_bitpos, data, nextbit)

lpm_gen_combinations(t, addr, temp_bitpos, data, nextbit) ==
    IF nextbit # -1 /\ BOUNDARY_BIT_POSITION(temp_bitpos)
    THEN [ret |-> "ABORT", t |-> t]
    ELSE IF temp_bitpos < LPM_STRIDE
    THEN [ret |-> "SUCCESS",
          t |-> gen_pattern(t, t.hi256_table_base, addr[1], temp_bitpos, data, nextbit)]
    ELSE gen_chained(build_trie_chain(t, addr, (temp_bitpos \div LPM_STRIDE) + 1, 0,
                                      t.hi256_table_base, << >>, {}),
                     addr, (temp_bitpos \div LPM_STRIDE) + 1, temp_bitpos, data, nextbit)

\* a result together with the address buffer the caller goes on with
WithAddr(g, addr) == [ret |-> g.ret, t |-> g.t, addr |-> addr]

\* lpm_gen_combinations does not touch addr
GenComb(t, addr, temp_bitpos, data, nextbit) ==
    WithAddr(lpm_gen_combinations(t, addr, temp_bitpos, data, nextbit), addr)

\* the entry into __lpm_prefix_expansion, where the code counts recur_times
Entered(t, temp_root, temp_bitpos) ==
    [t EXCEPT !.log = Append(@, Store("enter", temp_root, temp_bitpos, NULL, NullPtr))]

\* one sub-tree of __lpm_prefix_expansion; addr is written in place
RECURSIVE lpm_prefix_expansion(_, _, _, _, _)
ExpandSide(t, addr, temp_bitpos, temp_root, data, side) ==
    IF t.bheap[temp_root].child[side] # NullPtr
    THEN IF t.bheap[t.bheap[temp_root].child[side]].data = NULL
         THEN lpm_prefix_expansion(t,
                  IF side = 0 THEN CLEAR_BIT_AT_POSITION(addr, temp_bitpos + 1)
                              ELSE SET_BIT_AT_POSITION(addr, temp_bitpos + 1),
                  temp_bitpos + 1, t.bheap[temp_root].child[side], data)
         ELSE [ret |-> "SUCCESS", t |-> t, addr |-> addr]
    ELSE GenComb(t, addr, temp_bitpos, data, side)

\* the right sub-tree, after the left one gave left
ExpandRight(left, temp_bitpos, temp_root, data) ==
    IF left.ret # "SUCCESS"
    THEN left
    ELSE ExpandSide(left.t, left.addr, temp_bitpos, temp_root, data, 1)

lpm_prefix_expansion(t, addr, temp_bitpos, temp_root, data) ==
    IF \/ BOUNDARY_BIT_POSITION(temp_bitpos)
       \/ (t.bheap[temp_root].child[0] = NullPtr /\ t.bheap[temp_root].child[1] = NullPtr)
    THEN GenComb(Entered(t, temp_root, temp_bitpos), addr, temp_bitpos, data, -1)
    ELSE ExpandRight(ExpandSide(Entered(t, temp_root, temp_bitpos), addr, temp_bitpos,
                                temp_root, data, 0),
                     temp_bitpos, temp_root, data)

\* memset(temp_addr, 0); memcpy(temp_addr, addr, ((masklen - 1) >> 3) + 1)
CopyAddr(addr, masklen) ==
    SubSeq(addr, 1, ((masklen - 1) \div LPM_STRIDE) + 1)
        \o ZeroBytes(LPM_LEVEL_MAX - (((masklen - 1) \div LPM_STRIDE) + 1))

\* ------------------------------------------------------------------------
\* Public operations: each returns [ret, t]
\* ------------------------------------------------------------------------
\* ret and t of a result
RetT(e) == [ret |-> e.ret, t |-> e.t]

\* the return of the rollback: d is what btrie_del_appended gave
RollbackResult(d) == [ret |-> IF d.abort THEN "ABORT" ELSE "RESOURCES", t |-> d.t]

\* a rollback that leaves the appended nodes in the btrie
AddRollback_keep(t, append_point, append_bit) == [ret |-> "RESOURCES", t |-> t]

\* the rollback of lpm_add_entry: sever the appended chain and free it
AddRollback(t, append_point, append_bit) ==
    RollbackResult(
        btrie_del_appended([t EXCEPT !.bheap[append_point].child[append_bit] = NullPtr],
                           t.bheap[append_point].child[append_bit]))

\* lpm_add_entry after a refused expansion: t has the value taken out again
AddUndo(t, b) ==
    IF b.ret = "EXISTS"
    THEN [ret |-> "RESOURCES", t |-> t]
    ELSE AddRollback(t, b.append_point, b.append_bit)

\* lpm_add_entry after the expansion: e is what lpm_prefix_expansion gave
AddExpanded(e, masklen, b) ==
    IF e.ret = "SUCCESS"
    THEN [ret |-> "SUCCESS", t |-> e.t]
    ELSE IF e.ret = "RESOURCES"
    THEN AddUndo([e.t EXCEPT !.bheap[b.newnode].data = NULL,
                             !.stat.data_total = @ - 1,
                             !.stat.data_per_masklen[masklen] = @ - 1],
                 b)
    ELSE [ret |-> "ABORT", t |-> e.t]

\* lpm_add_entry that expands the zero route into the empty entries of the
\* root block
AddExpand_fill(t, addr, masklen, data, b) ==
    IF masklen = 0
    THEN [ret |-> "SUCCESS",
          t |-> [t EXCEPT !.mheap[t.hi256_table_base] =
                     [i \in Bytes |-> IF @[i].data = NULL
                                      THEN [@[i] EXCEPT !.data = data] ELSE @[i]]]]
    ELSE AddExpanded(lpm_prefix_expansion(t, CopyAddr(addr, masklen), masklen - 1,
                                          b.newnode, data),
                     masklen, b)

\* lpm_add_entry from "add data in 1-trie" on: t holds the value
AddExpand(t, addr, masklen, data, b) ==
    IF masklen = 0
    THEN [ret |-> "SUCCESS", t |-> t]
    ELSE AddExpanded(lpm_prefix_expansion(t, CopyAddr(addr, masklen), masklen - 1,
                                          b.newnode, data),
                     masklen, b)

\* lpm_add_entry after btrie_add_node: b is what btrie_add_node gave
AddNode(addr, masklen, data, b) ==
    CASE b.ret = "ABORT" -> [ret |-> "ABORT", t |-> b.t]
      [] b.ret = "RESOURCES" -> AddRollback(b.t, b.append_point, b.append_bit)
      [] OTHER ->
           IF b.t.bheap[b.newnode].data # NULL
           THEN [ret |-> IF b.t.bheap[b.newnode].data = data
                         THEN "EXISTS" ELSE "CONFLICT",
                 t |-> b.t]
           ELSE AddExpand([b.t EXCEPT !.bheap[b.newnode].data = data,
                                      !.stat.data_total = @ + 1,
                                      !.stat.data_per_masklen[masklen] = @ + 1],
                          addr, masklen, data, b)

\* lpm_add_entry that takes a null value for a value
lpm_add_entry_anydata(t, addr, masklen, data) ==
    IF lpm_check_arg(addr, masklen) # "SUCCESS"
    THEN [ret |-> "INVALID", t |-> t]
    ELSE AddNode(addr, masklen, data, btrie_add_node(t, addr, masklen))

lpm_add_entry(t, addr, masklen, data) ==
    IF lpm_check_arg(addr, masklen) # "SUCCESS" \/ data = NULL
    THEN [ret |-> "INVALID", t |-> t]
    ELSE AddNode(addr, masklen, data, btrie_add_node(t, addr, masklen))

\* an update that writes the new value to the default slot as well
UpdateNode_default(t, addr, masklen, data, stored_node) ==
    IF masklen = 0
    THEN [ret |-> "SUCCESS",
          t |-> [t EXCEPT !.bheap[stored_node].data = data, !.default_data = data]]
    ELSE RetT(lpm_prefix_expansion([t EXCEPT !.bheap[stored_node].data = data,
                                             !.default_data = data],
                                   CopyAddr(addr, masklen), masklen - 1,
                                   stored_node, data))

\* lpm_update_entry from "update data in 1-btrie" on
UpdateNode(t, addr, masklen, data, stored_node) ==
    IF masklen = 0
    THEN [ret |-> "SUCCESS", t |-> [t EXCEPT !.bheap[stored_node].data = data]]
    ELSE RetT(lpm_prefix_expansion([t EXCEPT !.bheap[stored_node].data = data],
                                   CopyAddr(addr, masklen), masklen - 1,
                                   stored_node, data))

\* lpm_update_entry after btrie_find_node, taking any node for a binding
UpdateFound_anynode(t, addr, masklen, data, stored_node) ==
    IF stored_node = NullPtr
    THEN [ret |-> "NOTFOUND", t |-> t]
    ELSE UpdateNode(t, addr, masklen, data, stored_node)

\* lpm_update_entry after btrie_find_node
UpdateFound(t, addr, masklen, data, stored_node) ==
    IF stored_node = NullPtr \/ t.bheap[stored_node].data = NULL
    THEN [ret |-> "NOTFOUND", t |-> t]
    ELSE UpdateNode(t, addr, masklen, data, stored_node)

lpm_update_entry(t, addr, masklen, data) ==
    IF lpm_check_arg(addr, masklen) # "SUCCESS" \/ data = NULL
    THEN [ret |-> "INVALID", t |-> t]
    ELSE UpdateFound(t, addr, masklen, data,
                     btrie_find_node(t, t.btrie_root, addr, masklen, 0))

\* default_addr: the first cnt bytes of addr, the last one masked to masklen
DefaultAddr(addr, masklen) ==
    IF masklen = 0
    THEN ZeroAddr
    ELSE [CopyAddr(addr, masklen) EXCEPT
             ![((masklen - 1) \div LPM_STRIDE) + 1] =
                 PatternFirst(@, (MTRIE_BLOCK_ENTRY - 1) - (BitMask(masklen - 1) - 1))]

\* lpm_update_default_data after btrie_find_data
DefaultFound(t, addr, masklen, data) ==
    IF data = NULL
    THEN [ret |-> "NOTFOUND", t |-> t]
    ELSE [ret |-> "SUCCESS",
          t |-> [t EXCEPT !.default_data = data,
                          !.default_masklen = masklen,
                          !.default_addr = DefaultAddr(addr, masklen)]]

lpm_update_default_data(t, addr, masklen) ==
    IF lpm_check_arg(addr, masklen) # "SUCCESS"
    THEN [ret |-> "INVALID", t |-> t]
    ELSE DefaultFound(t, addr, masklen, btrie_find_data(t, addr, masklen))

\* lpm_del_default_data that clears the value and leaves the prefix
lpm_del_default_data_value(t) ==
    IF t.default_data = NULL
    THEN [ret |-> "NOTFOUND", t |-> t]
    ELSE [ret |-> "SUCCESS", t |-> [t EXCEPT !.default_data = NULL]]

lpm_del_default_data(t) ==
    IF t.default_data = NULL
    THEN [ret |-> "NOTFOUND", t |-> t]
    ELSE [ret |-> "SUCCESS",
          t |-> [t EXCEPT !.default_data = NULL,
                          !.default_masklen = 0,
                          !.default_addr = ZeroAddr]]

\* ------------------------------------------------------------------------
\* Delete
\* ------------------------------------------------------------------------
\* the for loop of zero_out_data below the root block
RECURSIVE zero_out_loop(_, _, _, _, _)
zero_out_loop(t, addr, masklen, level, trie) ==
    IF trie = NullPtr \/ level >= LPM_LEVEL_MAX
    THEN t
    ELSE IF (masklen - (level * LPM_STRIDE)) <= LPM_STRIDE
         THEN WritePattern(t, trie, addr[level + 1], masklen - 1, NULL)
         ELSE zero_out_loop(WriteData(t, trie, addr[level + 1], NULL),
                            addr, masklen, level + 1,
                            t.mheap[trie][addr[level + 1]].base)

zero_out_data(t, addr, masklen) ==
    IF masklen <= LPM_STRIDE
    THEN [ret |-> "SUCCESS",
          t |-> WritePattern(t, t.hi256_table_base, addr[1], masklen - 1, NULL)]
    ELSE IF t.mheap[t.hi256_table_base][addr[1]].base = NullPtr
         THEN [ret |-> "INTERNAL",
               t |-> WriteData(t, t.hi256_table_base, addr[1], NULL)]
         ELSE [ret |-> "SUCCESS",
               t |-> zero_out_loop(
                         WriteData(t, t.hi256_table_base, addr[1], NULL),
                         addr, masklen, 1,
                         t.mheap[t.hi256_table_base][addr[1]].base)]

\* "Find the trie block to delete": entry is the last entry visited (block
\* and index), trie the block its base pointed to
RECURSIVE find_trie_block(_, _, _, _, _, _)
find_trie_block(t, addr, trie_count, level, trie, entry) ==
    IF trie # NullPtr /\ level < trie_count
    THEN find_trie_block(t, addr, trie_count, level + 1,
                         t.mheap[trie][addr[level + 1]].base,
                         [block |-> trie, idx |-> addr[level + 1]])
    ELSE [trie |-> trie, entry |-> entry]

\* delete_trie_block once the entry is unhooked; abort is the exit(-1) of
\* the inconsistence check
free_trie_block(t, trie) ==
    IF trie # NullPtr
    THEN IF \E i \in Bytes : t.mheap[trie][i].base # NullPtr
         THEN [abort |-> TRUE, t |-> t]
         ELSE [abort |-> FALSE, t |-> mtrie_free_block(t, trie)]
    ELSE [abort |-> FALSE, t |-> t]

\* delete_trie_block after the search: f is what find_trie_block gave
unhook_trie_block(t, f) ==
    free_trie_block([t EXCEPT !.mheap[f.entry.block][f.entry.idx].base = NullPtr,
                              !.log = Append(@, Store("base", f.entry.block,
                                                      f.entry.idx, NULL, NullPtr))],
                    f.trie)

delete_trie_block(t, addr, bitpos) ==
    unhook_trie_block(t, find_trie_block(t, addr, (bitpos \div LPM_STRIDE) + 1, 0,
                                         t.hi256_table_base,
                                         [block |-> NullPtr, idx |-> 0]))

\* __delete_subtree's verdict
Deletable(del, t, abort) == [del |-> del, t |-> t, abort |-> abort]

\* one sub-tree of __delete_subtree: del is delete_left / delete_right, r
\* what the recursion on the child gave
RECURSIVE delete_subtree(_, _, _, _)
DeleteChild(r, temp_root, side, child) ==
    IF r.abort \/ r.del = 0
    THEN r
    ELSE Deletable(1, [btrie_destroy_subtree(r.t, child)
                          EXCEPT !.bheap[temp_root].child[side] = NullPtr],
                   FALSE)

DeleteSide(t, addr, temp_root, bitpos, side) ==
    IF t.bheap[temp_root].child[side] = NullPtr
    THEN Deletable(1, t, FALSE)
    ELSE DeleteChild(delete_subtree(t, addr, t.bheap[temp_root].child[side], bitpos + 1),
                     temp_root, side, t.bheap[temp_root].child[side])

\* the end of __delete_subtree: d is what delete_trie_block gave
DeleteBlock(d) == Deletable(1, d.t, d.abort)

\* __delete_subtree after the right sub-tree
DeleteAfterRight(right, addr, temp_root, bitpos, is_root) ==
    IF right.abort \/ right.del = 0
    THEN right
    ELSE IF ~is_root
         THEN IF BOUNDARY_BIT_POSITION(bitpos)
              THEN DeleteBlock(delete_trie_block(right.t, addr, bitpos))
              ELSE Deletable(1, right.t, FALSE)
         ELSE Deletable(0, right.t, FALSE)

\* __delete_subtree after the left sub-tree
DeleteAfterLeft(left, addr, temp_root, bitpos, is_root) ==
    IF left.abort \/ left.del = 0
    THEN left
    ELSE DeleteAfterRight(DeleteSide(left.t, addr, temp_root, bitpos, 1),
                          addr, temp_root, bitpos, is_root)

delete_subtree(t, addr, temp_root, bitpos) ==
    IF t.bheap[temp_root].child[0] = NullPtr /\ t.bheap[temp_root].child[1] = NullPtr
    THEN Deletable(IF t.bheap[temp_root].data = NULL THEN 1 ELSE 0, t, FALSE)
    ELSE DeleteAfterLeft(DeleteSide(t, addr, temp_root, bitpos, 0),
                         addr, temp_root, bitpos, temp_root = t.btrie_root)

\* what the walk of __lpm_del_entry found
Found(node, last_known_node, last_known_data, last_known_bitpos) ==
    [node |-> node, last_known_node |-> last_known_node,
     last_known_data |-> last_known_data, last_known_bitpos |-> last_known_bitpos]

\* the walk of __lpm_del_entry from the root to the target node
RECURSIVE del_find(_, _, _, _, _, _, _, _)
del_step(t, addr, masklen, bitpos, next, last_known_node, last_known_data, last_known_bitpos) ==
    IF next = NullPtr
    THEN Found(NullPtr, last_known_node, last_known_data, last_known_bitpos)
    ELSE IF t.bheap[next].data # NULL /\ bitpos # masklen - 1
         THEN del_find(t, addr, masklen, bitpos + 1, next,
                       next, t.bheap[next].data, bitpos)
         ELSE del_find(t, addr, masklen, bitpos + 1, next,
                       last_known_node, last_known_data, last_known_bitpos)

del_find(t, addr, masklen, bitpos, node, last_known_node, last_known_data, last_known_bitpos) ==
    IF bitpos >= masklen
    THEN Found(node, last_known_node, last_known_data, last_known_bitpos)
    ELSE del_step(t, addr, masklen, bitpos,
                  t.bheap[node].child[bit_at_position(addr, bitpos)],
                  last_known_node, last_known_data, last_known_bitpos)

\* a delete that leaves the m-trie as it is
DelRestore_none(t, addr, masklen, f) == [ret |-> "SUCCESS", t |-> t, addr |-> addr]

\* the restoration of the m-trie after the b-trie value is cleared
DelRestore(t, addr, masklen, f) ==
    IF f.last_known_data # NULL
    THEN IF ((masklen - 1) \div LPM_STRIDE) = (f.last_known_bitpos \div LPM_STRIDE)
         THEN lpm_prefix_expansion(t, addr, f.last_known_bitpos,
                                   f.last_known_node, f.last_known_data)
         ELSE lpm_prefix_expansion(t, addr, masklen - 1, f.node, NULL)
    ELSE IF t.bheap[f.node].child[0] # NullPtr \/ t.bheap[f.node].child[1] # NullPtr
         THEN lpm_prefix_expansion(t, addr, masklen - 1, f.node, NULL)
         ELSE WithAddr(zero_out_data(t, addr, masklen), addr)

\* the return of __lpm_del_entry: d is what delete_subtree gave
DelResult(d) == [ret |-> IF d.abort THEN "ABORT" ELSE "SUCCESS", t |-> d.t]

\* __lpm_del_entry after the restoration r of the m-trie
DelPrune(r, f, root) ==
    IF r.ret # "SUCCESS"
    THEN RetT(r)
    ELSE DelResult(delete_subtree(r.t, r.addr, f.last_known_node,
                                  IF f.last_known_node = root
                                  THEN -1 ELSE f.last_known_bitpos))

\* __lpm_del_entry after the walk: f is what the walk found
DelFound(t, addr, masklen, f) ==
    IF f.node = NullPtr
    THEN [ret |-> "NOTFOUND", t |-> t]
    ELSE IF t.bheap[f.node].data = NULL
    THEN [ret |-> "NOTFOUND", t |-> t]
    ELSE IF t.stat.data_total <= 0
    THEN [ret |-> "ABORT", t |-> t]
    ELSE DelPrune(DelRestore([t EXCEPT !.bheap[f.node].data = NULL,
                                       !.stat.data_total = @ - 1,
                                       !.stat.data_per_masklen[masklen] = @ - 1],
                             addr, masklen, f),
                  f, t.btrie_root)

lpm_del_entry_inner(t, addr, masklen) ==
    DelFound(t, addr, masklen,
             del_find(t, addr, masklen, 0, t.btrie_root, t.btrie_root, NULL, 0))

\* lpm_del_entry that clears the zero route without looking for its value
lpm_del_entry_nocheck(t, addr, masklen) ==
    IF lpm_check_arg(addr, masklen) # "SUCCESS"
    THEN [ret |-> "INVALID", t |-> t]
    ELSE IF masklen = 0
         THEN [ret |-> "SUCCESS",
               t |-> [t EXCEPT !.bheap[t.btrie_root].data = NULL,
                               !.stat.data_total = @ - 1,
                               !.stat.data_per_masklen[masklen] = @ - 1]]
         ELSE lpm_del_entry_inner(t, CopyAddr(addr, masklen), masklen)

lpm_del_entry(t, addr, masklen) ==
    IF lpm_check_arg(addr, masklen) # "SUCCESS"
    THEN [ret |-> "INVALID", t |-> t]
    ELSE IF masklen = 0
         THEN IF t.bheap[t.btrie_root].data = NULL
              THEN [ret |-> "NOTFOUND", t |-> t]
              ELSE IF t.stat.data_total <= 0
              THEN [ret |-> "ABORT", t |-> t]
              ELSE [ret |-> "SUCCESS",
                    t |-> [t EXCEPT !.bheap[t.btrie_root].data = NULL,
                                    !.stat.data_total = @ - 1,
                                    !.stat.data_per_masklen[masklen] = @ - 1]]
         ELSE lpm_del_entry_inner(t, CopyAddr(addr, masklen), masklen)

\* ------------------------------------------------------------------------
\* Table lifecycle
\* ------------------------------------------------------------------------
NoTable == [btrie_root |-> NullPtr, hi256_table_base |-> NullPtr,
            default_data |-> NULL, default_addr |-> ZeroAddr,
            default_masklen |-> 0, stat |-> ZeroStat,
            bheap |-> << >>, mheap |-> << >>, budget |-> NoFail,
            log |-> << >>]

btrie_destroy(t) ==
    [btrie_destroy_subtree(t, t.btrie_root) EXCEPT !.btrie_root = NullPtr]

\* the table between two calls: no allocation to refuse, no store under way
Settled(t) == [t EXCEPT !.budget = NoFail, !.log = << >>]

\* What a run of lpm_create_table leaves: ok, whether it returns the table;
\* held, whether the table structure is still allocated; t, the structure as
\* the run last saw it, with the nodes and blocks that are still allocated.
\* budget is the number of allocations the allocator grants before it
\* refuses one.
CreateRun(ok, held, t) == [ok |-> ok, held |-> held, t |-> t]

\* a mtrie_init failure that goes to error_btrie and skips btrie_destroy
create_mtrie_leak(m) ==
    IF m.base = NullPtr
    THEN CreateRun(FALSE, FALSE, m.t)
    ELSE CreateRun(TRUE, TRUE, [m.t EXCEPT !.hi256_table_base = m.base,
                                           !.budget = NoFail, !.log = << >>])

\* lpm_create_table from mtrie_init on: m is what mtrie_alloc_block gave
create_mtrie(m) ==
    IF m.base = NullPtr
    THEN CreateRun(FALSE, FALSE, btrie_destroy(m.t))
    ELSE CreateRun(TRUE, TRUE, [m.t EXCEPT !.hi256_table_base = m.base,
                                           !.budget = NoFail, !.log = << >>])

\* lpm_create_table from btrie_init on: b is what btrie_alloc_node gave
create_btrie(b) ==
    IF b.node = NullPtr
    THEN CreateRun(FALSE, FALSE, b.t)
    ELSE create_mtrie(mtrie_alloc_block([b.t EXCEPT !.btrie_root = b.node], << >>))

lpm_create_run(budget) ==
    IF budget = 0
    THEN CreateRun(FALSE, FALSE, NoTable)
    ELSE create_btrie(btrie_alloc_node([NoTable EXCEPT !.budget = SpendBudget(budget)],
                                       << >>))

\* lpm_create_table: the table, or NoTable (NULL) when an allocation fails
lpm_create_table(budget) ==
    IF lpm_create_run(budget).ok THEN lpm_create_run(budget).t ELSE NoTable

\* ------------------------------------------------------------------------
\* Inputs
\* ------------------------------------------------------------------------
RECURSIVE ByteSeqs(_)
ByteSeqs(n) ==
    IF n = 0 THEN {<< >>} ELSE {Append(a, b) : a \in ByteSeqs(n - 1), b \in Bytes}

\* every address of LPM_LEVEL_MAX bytes
AllAddrs == ByteSeqs(LPM_LEVEL_MAX)
MaskLens == 0 .. LPM_MASKLEN_MAX

\* addr with the bits at positions >= masklen all clear / all set
RECURSIVE FillFrom(_, _, _)
FillFrom(addr, pos, bit) ==
    IF pos >= LPM_MASKLEN_MAX
    THEN addr
    ELSE FillFrom(IF bit = 1 THEN SET_BIT_AT_POSITION(addr, pos)
                             ELSE CLEAR_BIT_AT_POSITION(addr, pos),
                  pos + 1, bit)

\* the address universe of the calls: 00..0 01..1 .., 10..0 11..1 .. and
\* 11..1 11..1 .. (two nested chains on the right, one on the left)
LoByte == 0
MidByte == 2 ^ (LPM_STRIDE - 1)
HiByte == MTRIE_BLOCK_ENTRY - 1
InAddrs == {a \in AllAddrs :
               /\ <<a[1], a[2]>> \in {<<LoByte, MidByte - 1>>, <<MidByte, HiByte>>,
                                       <<HiByte, HiByte>>}
               /\ \A l \in 3 .. LPM_LEVEL_MAX : a[l] = HiByte}

\* the calls' arguments: a prefix of the universe with the bits behind the
\* mask all clear (Canonical) or all set (the code has to ignore them)
Canonical == {[addr |-> FillFrom(a, m, 0), masklen |-> m] : a \in InAddrs, m \in MaskLens}
Inputs == Canonical \cup
          {[addr |-> FillFrom(a, m, 1), masklen |-> m] : a \in InAddrs, m \in MaskLens}

\* the bits of a prefix, the name under which a binding is remembered
PrefixBits(addr, masklen) == [i \in 1 .. masklen |-> bit_at_position(addr, i - 1)]

\* ------------------------------------------------------------------------
\* State
\* ------------------------------------------------------------------------
VARIABLES
    table,      \* struct lpm_lkup_table_s with the two heaps it owns
    op,         \* the last public operation called
    ret,        \* its lpm_result_t ("ABORT": a failed assert or exit(-1))
    bound,      \* the bindings added and not deleted: prefix bits -> data
    calls,      \* the number of calls made so far
    writer,     \* the call that is under way, store by store (WriterStore)
    reader      \* the lpm_search_table another thread runs meanwhile

vars == << table, op, ret, bound, calls, writer, reader >>

\* no call under way: the stores of the calls are not told apart
NoWriter ==
    [busy |-> FALSE, name |-> "none", ret |-> "SUCCESS", pre |-> NoTable,
     t |-> NoTable, bind |-> << >>, pc |-> 0, raw |-> {}, new |-> {}]

\* no search under way
NoReader ==
    [pc |-> "idle", addr |-> << >>, base |-> NullPtr, level |-> 0, data |-> NULL,
     freed |-> FALSE, raw |-> FALSE]

Init ==
    /\ table = lpm_create_table(NoFail)
    /\ op = "create"
    /\ ret = "SUCCESS"
    /\ bound = << >>
    /\ calls = 0
    /\ writer = NoWriter
    /\ reader = NoReader

Alive == ret # "ABORT"

\* the table a call leaves behind; a dead process leaves nothing to look at
After(r) == IF r.ret = "ABORT" THEN table ELSE Settled(r.t)

\* a call may be refused an allocation only while the failure counters are
\* below MaxFail
Budgets(fails) ==
    IF table.stat.btrie_node_alloc_fail_stat + table.stat.mtrie_block_alloc_fail_stat
           < MaxFail
    THEN fails \cup {NoFail}
    ELSE {NoFail}

NoLimit == -1

\* a call is made while the process lives and has a table that is not destroyed, and
\* while fewer than lim calls were made: lim is the length of the call
\* sequences explored
Ready(lim) ==
    /\ Alive
    /\ table # NoTable
    /\ op # "destroy"
    /\ lim # NoLimit => calls < lim

\* what every call does to the state: r is the handler's result, b the
\* bindings after the call
Returns(name, r, b, lim) ==
    /\ table' = After(r)
    /\ op' = name
    /\ ret' = r.ret
    /\ bound' = b
    /\ calls' = IF lim = NoLimit THEN calls ELSE calls + 1

\* a call that runs from its first store to its last with nothing in between
Call(name, r, b, lim) ==
    /\ Returns(name, r, b, lim)
    /\ UNCHANGED << writer, reader >>

\* the bindings after a call that binds p to data and returned r
Bind(p, data, r) == IF r.ret = "SUCCESS" THEN (p :> data) @@ bound ELSE bound

\* the bindings after a call that unbinds p and returned r
Unbind(p, r) == IF r.ret = "SUCCESS" THEN RemoveKeys(bound, {p}) ELSE bound

\* an add call that returned r; most: the number of prefixes the explored
\* tables hold at most
Added(p, data, r, most, lim) ==
    /\ (p \notin DOMAIN bound) => (Cardinality(DOMAIN bound) < most)
    /\ r.t.stat.data_total <= most
    /\ Call("add", r, Bind(p, data, r), lim)

AddEntry(inputs, values, fails, most, lim) ==
    /\ Ready(lim)
    /\ \E in \in inputs, data \in values, f \in Budgets(fails) :
           Added(PrefixBits(in.addr, in.masklen), data,
                 lpm_add_entry([table EXCEPT !.budget = f], in.addr, in.masklen, data),
                 most, lim)

Updated(p, data, r, lim) == Call("update", r, Bind(p, data, r), lim)

UpdateEntry(inputs, values, lim) ==
    /\ Ready(lim)
    /\ \E in \in inputs, data \in values :
           Updated(PrefixBits(in.addr, in.masklen), data,
                   lpm_update_entry(table, in.addr, in.masklen, data), lim)

Deleted(p, r, lim) == Call("delete", r, Unbind(p, r), lim)

DelEntry(inputs, lim) ==
    /\ Ready(lim)
    /\ \E in \in inputs :
           Deleted(PrefixBits(in.addr, in.masklen),
                   lpm_del_entry(table, in.addr, in.masklen), lim)

UpdateDefault(inputs, lim) ==
    /\ Ready(lim)
    /\ \E in \in inputs :
           Call("update_default",
                lpm_update_default_data(table, in.addr, in.masklen), bound, lim)

DelDefault(lim) ==
    /\ Ready(lim)
    /\ Call("del_default", lpm_del_default_data(table), bound, lim)

\* every sequence of at most MaxCalls add / delete calls that leave at most
\* MaxData prefixes bound, no allocation refused
Next ==
    \/ AddEntry(Canonical, Values, {}, MaxData, MaxCalls)
    \/ DelEntry(Canonical, MaxCalls)

Spec == Init /\ [][Next]_vars

\* the data of the calls where one data value is enough to tell a value
\* from no value
OneValue == {1}

\* every sequence of at most MaxCalls add / update / delete calls with one
\* data value
NextCalls ==
    \/ AddEntry(Canonical, OneValue, {}, MaxData, MaxCalls)
    \/ UpdateEntry(Canonical, OneValue, MaxCalls)
    \/ DelEntry(Canonical, MaxCalls)

SpecCalls == Init /\ [][NextCalls]_vars

\* the prefixes that end in the root block or in a block right below it
Upper == {in \in Canonical : in.masklen <= 2 * LPM_STRIDE}

\* every sequence, of any length, of add / update / delete calls for these
\* prefixes with one data value that leave at most MaxData prefixes bound
NextLong ==
    \/ AddEntry(Upper, OneValue, {}, MaxData, NoLimit)
    \/ UpdateEntry(Upper, OneValue, NoLimit)
    \/ DelEntry(Upper, NoLimit)

SpecLong == Init /\ [][NextLong]_vars

\* every sequence of add calls for prefixes of masklen 1 and more, the bits
\* behind the mask clear or set, until MaxAdds prefixes are bound
Masked == {in \in Inputs : in.masklen >= 1}

NextAdd == AddEntry(Masked, Values, {}, MaxAdds, NoLimit)

SpecAdd == Init /\ [][NextAdd]_vars

\* the allocations a call is granted before one is refused: an add allocates
\* a btrie node per bit and a block per level below the first at most
FailPoints == 0 .. (LPM_MASKLEN_MAX + LPM_LEVEL_MAX - 2)

\* every sequence of at most FailCalls add / update / delete calls with one
\* data value, where the allocator may refuse an add
NextFail ==
    \/ AddEntry(Canonical, OneValue, FailPoints, MaxData, FailCalls)
    \/ UpdateEntry(Canonical, OneValue, FailCalls)
    \/ DelEntry(Canonical, FailCalls)

SpecFail == Init /\ [][NextFail]_vars

\* the one-bit prefix on the left, and on the right the one-bit prefix with
\* the two chains below it, to three bits
PruneInputs ==
    {in \in Canonical :
        PrefixBits(in.addr, in.masklen) \in
            {<<0>>, <<1>>, <<1, 1>>, <<1, 0, 1>>, <<1, 1, 1>>}}

\* every sequence, of any length, of add / update / delete calls for these
\* prefixes with one data value that leave at most MaxPrune prefixes bound
NextPrune ==
    \/ AddEntry(PruneInputs, OneValue, {}, MaxPrune, NoLimit)
    \/ UpdateEntry(PruneInputs, OneValue, NoLimit)
    \/ DelEntry(PruneInputs, NoLimit)

SpecPrune == Init /\ [][NextPrune]_vars

\* ------------------------------------------------------------------------
\* Properties
\* ------------------------------------------------------------------------

\* address A lies in the prefix with bits p
Matches(p, A) == \A i \in 1 .. Len(p) : p[i] = bit_at_position(A, i - 1)

\* the bound prefixes of length minlen at least that A lies in
MatchingIn(b, A, minlen) == {p \in DOMAIN b : Len(p) >= minlen /\ Matches(p, A)}

\* the longest of them
LongestPrefix(b, A, minlen) ==
    CHOOSE p \in MatchingIn(b, A, minlen) : \A q \in MatchingIn(b, A, minlen) : Len(q) <= Len(p)

\* the value longest prefix match owes to A, NULL when no prefix matches
LongestIn(b, A, minlen) ==
    IF MatchingIn(b, A, minlen) = {} THEN NULL ELSE b[LongestPrefix(b, A, minlen)]

\* the address with the bits p in front and zeroes behind
RECURSIVE BitsToAddr(_, _, _)
BitsToAddr(p, i, addr) ==
    IF i > Len(p)
    THEN addr
    ELSE BitsToAddr(p, i + 1, IF p[i] = 1 THEN SET_BIT_AT_POSITION(addr, i - 1) ELSE addr)

AddrOf(p) == BitsToAddr(p, 1, ZeroAddr)

\* C1: after any sequence of calls search(A) returns, for every address A,
\* the value of the longest bound prefix that matches A, and the default
\* value with used_default = 1 when none matches. Stated here for the
\* bindings of masklen 1 and more, which the mtrie has to hold.
C1_SearchIsLongestMatch ==
    Alive =>
        \A A \in AllAddrs :
            LET s == lpm_search_table(table, A)
                l == LongestIn(bound, A, 1)
            IN  IF l # NULL
                THEN s.data = l /\ s.using_default = 0
                ELSE s.data = table.default_data /\ s.using_default = 1

\* C2: after any sequence of calls find(addr, masklen) returns the bound
\* value of every prefix that was added and not deleted since.
C2_FindReturnsBound ==
    Alive => \A p \in DOMAIN bound : lpm_find_entry(table, AddrOf(p), Len(p)) = bound[p]

\* C3: after successful adds of distinct prefixes of masklen 1 and more, in
\* any order, search(A) returns for every address A the value of the longest
\* added prefix that matches A, and null with used_default = 1 when none does.
C3_AddOnlySearch ==
    Alive =>
        \A A \in AllAddrs :
            lpm_search_table(table, A) =
                IF MatchingIn(bound, A, 1) # {}
                THEN [data |-> LongestIn(bound, A, 1), using_default |-> 0]
                ELSE [data |-> NULL, using_default |-> 1]

\* two bound prefixes, one inside the other, that end in different blocks
NestedAcrossBlocks(b) ==
    \E p, q \in DOMAIN b :
        /\ Len(p) < Len(q)
        /\ Matches(p, AddrOf(q))
        /\ (Len(p) - 1) \div LPM_STRIDE < (Len(q) - 1) \div LPM_STRIDE

\* MaxAdds prefixes were added, nested ones among them, and some address is
\* in none of them
C3_Witness ==
    /\ op = "add"
    /\ ret = "SUCCESS"
    /\ Cardinality(DOMAIN bound) = MaxAdds
    /\ NestedAcrossBlocks(bound)
    /\ \E A \in AllAddrs : MatchingIn(bound, A, 1) = {}

\* the state right after add(0.0.0.0, masklen 0, A) succeeded on a freshly
\* created table
FreshZeroRoute ==
    /\ calls = 1
    /\ op = "add"
    /\ ret = "SUCCESS"
    /\ DOMAIN bound = {<<>>}

\* C4 as claimed: on a freshly created table, after add(0.0.0.0, masklen 0, A)
\* succeeded, search of any address returns A with used_default = 0.
C4_ZeroRouteSearched ==
    FreshZeroRoute =>
        \A A \in AllAddrs :
            lpm_search_table(table, A) = [data |-> bound[<<>>], using_default |-> 0]

\* C4 as amended: on a freshly created table, after add(0.0.0.0, masklen 0, A)
\* succeeded, find(0.0.0.0, 0) returns A, and search of any address returns
\* null with used_default = 1: the zero route is kept in the btrie root only.
C4_ZeroRouteInRootOnly ==
    FreshZeroRoute =>
        /\ lpm_find_entry(table, ZeroAddr, 0) = bound[<<>>]
        /\ \A A \in AllAddrs :
               lpm_search_table(table, A) = [data |-> NULL, using_default |-> 1]

C4_Witness ==
    /\ FreshZeroRoute
    /\ table.bheap[table.btrie_root].data = bound[<<>>]
    /\ table.default_data = NULL

\* the table after add(p1, v1) alone, after add(p1, v1); add(p2, v2), and
\* the result of delete(p2) after these two
AddedAlone(p1, v1) ==
    Settled(lpm_add_entry(lpm_create_table(NoFail), AddrOf(p1), Len(p1), v1).t)

AddedBoth(p1, v1, p2, v2) ==
    Settled(lpm_add_entry(AddedAlone(p1, v1), AddrOf(p2), Len(p2), v2).t)

\* p2 is longer than p1 and extends it
Extends(p2, p1) == Len(p1) < Len(p2) /\ Matches(p1, AddrOf(p2))

\* C5: for every prefix P1 of masklen 1 and more and every P2 that extends
\* it, in the same block or in another, after add(P1); add(P2) on a new table
\* delete(P2) returns SUCCESS and leaves search(A), for every address A, what
\* it is after add(P1) alone.
C5_DeleteNestedRestores ==
    (calls = 2 /\ op = "add" /\ ret = "SUCCESS") =>
        \A p1, p2 \in DOMAIN bound :
            (/\ Len(p1) >= 1
             /\ Extends(p2, p1)
             /\ table = AddedBoth(p1, bound[p1], p2, bound[p2])) =>
                \A in \in Inputs :
                    PrefixBits(in.addr, in.masklen) = p2 =>
                        LET r == lpm_del_entry(table, in.addr, in.masklen)
                        IN  /\ r.ret = "SUCCESS"
                            /\ \A A \in AllAddrs :
                                   lpm_search_table(r.t, A) =
                                       lpm_search_table(AddedAlone(p1, bound[p1]), A)

\* delete(P2) has run after add(P1); add(P2), P2 extending P1 into another
\* block
C5_Witness ==
    /\ calls = 3
    /\ op = "delete"
    /\ ret = "SUCCESS"
    /\ \E p1 \in DOMAIN bound, in \in Canonical, v2 \in Values :
           LET p2 == PrefixBits(in.addr, in.masklen)
           IN  /\ DOMAIN bound = {p1}
               /\ Len(p1) >= 1
               /\ Extends(p2, p1)
               /\ (Len(p1) - 1) \div LPM_STRIDE < (Len(p2) - 1) \div LPM_STRIDE
               /\ table = Settled(lpm_del_entry(AddedBoth(p1, bound[p1], p2, v2),
                                                in.addr, in.masklen).t)

\* what a call that changes nothing leaves alone: the btrie, the mtrie, the
\* default slot and the counters
Untouched(t, u) ==
    /\ u.bheap = t.bheap
    /\ u.btrie_root = t.btrie_root
    /\ u.mheap = t.mheap
    /\ u.hi256_table_base = t.hi256_table_base
    /\ u.default_data = t.default_data
    /\ u.default_masklen = t.default_masklen
    /\ u.default_addr = t.default_addr
    /\ u.stat = t.stat

\* C7: delete(P) of a prefix P without binding, its btrie node absent or
\* without a value, returns NOTFOUND and leaves the btrie, the mtrie, the
\* default slot and the counters unchanged.
C7_DeleteUnboundNotFound ==
    Alive =>
        \A in \in Inputs :
            lpm_find_entry(table, in.addr, in.masklen) = NULL =>
                LET r == lpm_del_entry(table, in.addr, in.masklen)
                IN  r.ret = "NOTFOUND" /\ Untouched(table, r.t)

\* a delete was answered NOTFOUND while a prefix is bound and a node without
\* a value is in the btrie
C7_Witness ==
    /\ op = "delete"
    /\ ret = "NOTFOUND"
    /\ bound # << >>
    /\ \E n \in DOMAIN table.bheap :
           n # table.btrie_root /\ table.bheap[n].data = NULL

\* C8: update(P, v) of a prefix P without binding at (addr, masklen), also
\* when a shorter or longer prefix is bound, returns NOTFOUND and leaves the
\* btrie, the mtrie, the default slot and the counters unchanged.
C8_UpdateUnboundNotFound ==
    Alive =>
        \A in \in Inputs, data \in Values :
            lpm_find_entry(table, in.addr, in.masklen) = NULL =>
                LET r == lpm_update_entry(table, in.addr, in.masklen, data)
                IN  r.ret = "NOTFOUND" /\ Untouched(table, r.t)

\* an update was answered NOTFOUND while two prefixes are bound, one inside
\* the other
C8_Witness ==
    /\ op = "update"
    /\ ret = "NOTFOUND"
    /\ \E p, q \in DOMAIN bound : Extends(q, p)

\* C6: for every prefix P, of masklen 0 to LPM_MASKLEN_MAX, that is bound to
\* v, add(P, v) returns EXISTS and add(P, v') with another value returns
\* CONFLICT, and both leave the btrie, the mtrie, the default slot and the
\* counters unchanged.
C6_AddBoundExistsConflict ==
    Alive =>
        \A in \in Inputs, data \in Values :
            LET p == PrefixBits(in.addr, in.masklen)
                r == lpm_add_entry(table, in.addr, in.masklen, data)
            IN  p \in DOMAIN bound =>
                    /\ r.ret = IF data = bound[p] THEN "EXISTS" ELSE "CONFLICT"
                    /\ Untouched(table, r.t)

\* C9: update(P, v') of a bound prefix P returns SUCCESS; afterwards
\* find(P) = v', search(A) = v' for the addresses A whose longest matching
\* bound prefix is P, and the search results of all other addresses and the
\* data counters are unchanged. Stated here for the prefixes of masklen 1
\* and more.
C9_UpdateBound ==
    Alive =>
        \A in \in Inputs, data \in Values :
            LET p == PrefixBits(in.addr, in.masklen)
                r == lpm_update_entry(table, in.addr, in.masklen, data)
            IN  (p \in DOMAIN bound /\ in.masklen >= 1) =>
                    /\ r.ret = "SUCCESS"
                    /\ lpm_find_entry(r.t, in.addr, in.masklen) = data
                    /\ \A A \in AllAddrs :
                           lpm_search_table(r.t, A) =
                               IF Matches(p, A) /\ LongestPrefix(bound, A, 1) = p
                               THEN [data |-> data, using_default |-> 0]
                               ELSE lpm_search_table(table, A)
                    /\ r.t.stat.data_total = table.stat.data_total
                    /\ r.t.stat.data_per_masklen = table.stat.data_per_masklen

\* an allocation was refused during the call that led from t to u
Refused(t, u) ==
    \/ u.stat.btrie_node_alloc_fail_stat > t.stat.btrie_node_alloc_fail_stat
    \/ u.stat.mtrie_block_alloc_fail_stat > t.stat.mtrie_block_alloc_fail_stat

\* the btrie, the mtrie and the node, block and data counters of u are those
\* of t
RolledBack(t, u) ==
    /\ u.bheap = t.bheap
    /\ u.btrie_root = t.btrie_root
    /\ u.mheap = t.mheap
    /\ u.hi256_table_base = t.hi256_table_base
    /\ u.stat.btrie_node_alloc_stat = t.stat.btrie_node_alloc_stat
    /\ u.stat.mtrie_block_alloc_stat = t.stat.mtrie_block_alloc_stat
    /\ u.stat.data_total = t.stat.data_total
    /\ u.stat.data_per_masklen = t.stat.data_per_masklen

\* C10: when an allocation of a btrie node or of an mtrie block is refused
\* during add(P, v), add returns RESOURCES, the btrie, the mtrie and the
\* node, block and data counters are what they were before the call, and the
\* same add succeeds when nothing is refused.
C10_AddRollsBack ==
    Alive =>
        \A in \in Canonical, data \in Values, f \in FailPoints :
            LET r == lpm_add_entry([table EXCEPT !.budget = f], in.addr, in.masklen, data)
            IN  (r.ret # "ABORT" /\ Refused(table, r.t)) =>
                    /\ r.ret = "RESOURCES"
                    /\ RolledBack(table, r.t)
                    /\ lpm_add_entry([r.t EXCEPT !.budget = NoFail],
                                     in.addr, in.masklen, data).ret = "SUCCESS"

\* an add was refused its mtrie block, after the btrie nodes were appended,
\* in a table that holds a prefix
C10_Witness ==
    /\ op = "add"
    /\ ret = "RESOURCES"
    /\ table.stat.mtrie_block_alloc_fail_stat = 1
    /\ bound # << >>

\* the values of the btrie nodes that hold one
BtrieValues(t) ==
    [n \in {m \in DOMAIN t.bheap : t.bheap[m].data # NULL} |-> t.bheap[n].data]

\* the btrie values, the mtrie contents and the data counters of u are those
\* of t
SameData(t, u) ==
    /\ BtrieValues(u) = BtrieValues(t)
    /\ u.mheap = t.mheap
    /\ u.hi256_table_base = t.hi256_table_base
    /\ u.stat.data_total = t.stat.data_total
    /\ u.stat.data_per_masklen = t.stat.data_per_masklen

\* a call that was refused an allocation answered r on table t
RefusedKeeps(t, r) ==
    (r.ret # "ABORT" /\ Refused(t, r.t)) => (r.ret = "RESOURCES" /\ SameData(t, r.t))

\* C11: when an allocation of an mtrie block is refused during update or
\* delete, the call returns RESOURCES and the btrie values, the mtrie
\* contents and the data counters are what they were before the call.
C11_UpdateDeleteRollBack ==
    Alive =>
        \A in \in Canonical, f \in FailPoints :
            /\ RefusedKeeps(table, lpm_del_entry([table EXCEPT !.budget = f],
                                                 in.addr, in.masklen))
            /\ \A data \in Values :
                   RefusedKeeps(table, lpm_update_entry([table EXCEPT !.budget = f],
                                                        in.addr, in.masklen, data))

\* ------------------------------------------------------------------------
\* Calls with invalid arguments
\* ------------------------------------------------------------------------
\* the arguments lpm_check_arg refuses: a masklen above LPM_MASKLEN_MAX, or
\* no address with a masklen above 0
BadMaskLens == {LPM_MASKLEN_MAX + 1, 2 * LPM_MASKLEN_MAX}
BadInputs ==
    {[addr |-> a, masklen |-> m] : a \in InAddrs \cup {NullPtr}, m \in BadMaskLens}
        \cup {[addr |-> NullPtr, masklen |-> m] : m \in 1 .. LPM_MASKLEN_MAX}

BadAdd(lim) ==
    /\ Ready(lim)
    /\ \/ \E in \in BadInputs, data \in OneValue :
              Call("add", lpm_add_entry(table, in.addr, in.masklen, data), bound, lim)
       \/ \E in \in Canonical :
              Call("add", lpm_add_entry(table, in.addr, in.masklen, NULL), bound, lim)

BadUpdate(lim) ==
    /\ Ready(lim)
    /\ \/ \E in \in BadInputs, data \in OneValue :
              Call("update", lpm_update_entry(table, in.addr, in.masklen, data), bound, lim)
       \/ \E in \in Canonical :
              Call("update", lpm_update_entry(table, in.addr, in.masklen, NULL), bound, lim)

BadDel(lim) ==
    /\ Ready(lim)
    /\ \E in \in BadInputs :
           Call("delete", lpm_del_entry(table, in.addr, in.masklen), bound, lim)

\* every sequence of at most MaxCalls add / update / delete calls with one
\* data value, with valid arguments or not
NextArgs ==
    \/ NextCalls
    \/ BadAdd(MaxCalls)
    \/ BadUpdate(MaxCalls)
    \/ BadDel(MaxCalls)

SpecArgs == Init /\ [][NextArgs]_vars

\* C12: add, update and delete called with a masklen above LPM_MASKLEN_MAX,
\* with no address and a masklen above 0, or (add, update) with a null value
\* return INVALID and leave the table unchanged; find returns null for the
\* same invalid address and masklen.
C12_InvalidArguments ==
    Alive =>
        /\ \A in \in BadInputs :
               /\ lpm_find_entry(table, in.addr, in.masklen) = NULL
               /\ lpm_del_entry(table, in.addr, in.masklen) = [ret |-> "INVALID", t |-> table]
               /\ \A data \in Values \cup {NULL} :
                      /\ lpm_add_entry(table, in.addr, in.masklen, data)
                             = [ret |-> "INVALID", t |-> table]
                      /\ lpm_update_entry(table, in.addr, in.masklen, data)
                             = [ret |-> "INVALID", t |-> table]
        /\ \A in \in Inputs :
               /\ lpm_add_entry(table, in.addr, in.masklen, NULL)
                      = [ret |-> "INVALID", t |-> table]
               /\ lpm_update_entry(table, in.addr, in.masklen, NULL)
                      = [ret |-> "INVALID", t |-> table]

\* an add without a value was answered INVALID by a table that holds a
\* prefix and a node without a value
C12_Witness ==
    /\ op = "add"
    /\ ret = "INVALID"
    /\ bound # << >>
    /\ \E n \in DOMAIN table.bheap :
           n # table.btrie_root /\ table.bheap[n].data = NULL

\* ------------------------------------------------------------------------
\* Destroy
\* ------------------------------------------------------------------------
\* mtrie_destroy that drops the root block without freeing anything
mtrie_destroy_keep(t) == [t EXCEPT !.hi256_table_base = NullPtr]

mtrie_destroy(t) ==
    [mtrie_free_block(t, t.hi256_table_base) EXCEPT !.hi256_table_base = NullPtr]

\* lpm_destroy_table: t is the table as lpm_mem_free finds it, the last
\* moment its counters can be read
lpm_destroy_table(t) ==
    IF t = NoTable
    THEN [ret |-> "INVALID", t |-> t]
    ELSE [ret |-> "SUCCESS", t |-> btrie_destroy(mtrie_destroy(t))]

\* destroy ends the life of the table, after any number of calls
Destroy ==
    /\ Alive
    /\ op # "destroy"
    /\ Call("destroy", lpm_destroy_table(table), bound, NoLimit)

\* every sequence of at most MaxCalls add / update / delete calls with one
\* data value, where the allocator may refuse an add, and the destroy at
\* its end
NextDestroy ==
    \/ AddEntry(Canonical, OneValue, FailPoints, MaxData, MaxCalls)
    \/ UpdateEntry(Canonical, OneValue, MaxCalls)
    \/ DelEntry(Canonical, MaxCalls)
    \/ Destroy

SpecDestroy == Init /\ [][NextDestroy]_vars

\* every btrie node and every mtrie block is freed and both counters are 0
AllFreed(t) ==
    /\ t.bheap = << >>
    /\ t.mheap = << >>
    /\ t.stat.btrie_node_alloc_stat = 0
    /\ t.stat.mtrie_block_alloc_stat = 0

\* C13: destroy of a table reached by any sequence of operations, adds that
\* failed with RESOURCES and deletes that pruned or left nodes without a
\* value among them, frees every btrie node and every mtrie block once: the
\* heaps are empty and the node and block counters are 0.
C13_DestroyFreesAll ==
    /\ (Alive /\ op # "destroy") => AllFreed(lpm_destroy_table(table).t)
    /\ op = "destroy" => (ret = "SUCCESS" /\ AllFreed(table))

\* a table was destroyed after MaxCalls calls, an add that was refused an
\* allocation among them, while it held a prefix
C13_Witness ==
    /\ op = "destroy"
    /\ ret = "SUCCESS"
    /\ calls = MaxCalls
    /\ table.stat.btrie_node_alloc_fail_stat + table.stat.mtrie_block_alloc_fail_stat > 0
    /\ table.stat.data_total = 1

\* the sum of data_per_masklen[0 .. m]
RECURSIVE SumPerMasklen(_, _)
SumPerMasklen(t, m) ==
    IF m < 0 THEN 0 ELSE t.stat.data_per_masklen[m] + SumPerMasklen(t, m - 1)

\* C14: after every completed operation, data_total is the sum of
\* data_per_masklen[0 .. LPM_MASKLEN_MAX] and the number of btrie nodes
\* whose value is not null.
C14_DataTotalCounts ==
    Alive =>
        /\ table.stat.data_total = SumPerMasklen(table, LPM_MASKLEN_MAX)
        /\ table.stat.data_total = Cardinality(DOMAIN BtrieValues(table))


\* ------------------------------------------------------------------------
\* Order of insertion
\* ------------------------------------------------------------------------
\* prefixes that differ in a bit both have: neither lies in the other
Disjoint(p, q) ==
    \E i \in 1 .. Len(p) : i <= Len(q) /\ p[i] # q[i]

\* of two disjoint prefixes one lies left of the other: it has 0 and the
\* other has 1 in the first bit they differ in
LeftOf(p, q) ==
    \E i \in 1 .. Len(p) :
        /\ i <= Len(q) /\ p[i] = 0 /\ q[i] = 1
        /\ \A j \in 1 .. (i - 1) : p[j] = q[j]

\* add(in1, v) and then add(in2, w) on t; a failed assertion ends the process
\* and the second call is never made
AddSecond(r, in, data) ==
    IF r.ret = "ABORT" THEN r ELSE lpm_add_entry(r.t, in.addr, in.masklen, data)

AddBothOrder(t, in1, v, in2, w) ==
    AddSecond(lpm_add_entry(t, in1.addr, in1.masklen, v), in2, w)

SameSearch(r, s) ==
    IF r.ret = "ABORT" \/ s.ret = "ABORT"
    THEN r.ret = s.ret
    ELSE \A A \in AllAddrs : lpm_search_table(r.t, A) = lpm_search_table(s.t, A)

\* C15: for any two disjoint prefixes P and Q and any values v and w,
\* add(P, v); add(Q, w) and add(Q, w); add(P, v) applied to the same table
\* leave search(A) the same for every address A. The table is any table that
\* a sequence of calls leaves which the two adds extend to MaxCalls calls at
\* most, and P is the one of the two that lies left of the other.
C15_AddOrderIndependent ==
    (Alive /\ calls + 2 <= MaxCalls) =>
        \A in1 \in Canonical, in2 \in Canonical :
            LeftOf(PrefixBits(in1.addr, in1.masklen), PrefixBits(in2.addr, in2.masklen)) =>
                \A v \in Values, w \in Values :
                    SameSearch(AddBothOrder(table, in1, v, in2, w),
                               AddBothOrder(table, in2, w, in1, v))

\* the last call was an add that succeeded, and exactly two prefixes are
\* bound: they are disjoint and both end in the root block, where their
\* expansions lie side by side
C15_Witness ==
    /\ op = "add" /\ ret = "SUCCESS"
    /\ Cardinality(DOMAIN bound) = 2
    /\ \A p \in DOMAIN bound, q \in DOMAIN bound :
           /\ p # q => Disjoint(p, q)
           /\ Len(p) <= LPM_STRIDE


\* ------------------------------------------------------------------------
\* Walk
\* ------------------------------------------------------------------------
\* The walker is the caller's function. The one of the model records the
\* arguments of its calls in visits and returns non-zero from call number
\* stop, zero from every other call (NoStop: zero from every call).
NoStop == 0
Walker(stop) == [visits |-> << >>, stop |-> stop]

\* the null function pointer
NullWalker == Walker(-1)

WalkerCall(w, addr, masklen, data) ==
    [w EXCEPT !.visits = Append(@, [addr |-> addr, masklen |-> masklen, data |-> data])]

WalkerRet(w) == IF Len(w.visits) = w.stop THEN 1 ELSE 0

\* the walk after (*walker)(addr, bitpos, node->data), w being the walker
\* after the call
DfsVisited(addr, w) ==
    [ret |-> IF WalkerRet(w) # 0 THEN "EXOTIC" ELSE "SUCCESS", addr |-> addr, w |-> w]

\* __btrie_dfs_walk: the node's data, the left subtree, the right subtree;
\* r is the walk so far, its return value, the addr buffer and the walker
RECURSIVE dfs_walk(_, _, _, _, _)
DfsRightDone(r, bitpos) == [r EXCEPT !.addr = CLEAR_BIT_AT_POSITION(@, bitpos)]

DfsRight(t, node, bitpos, r) ==
    IF r.ret # "SUCCESS" \/ t.bheap[node].child[1] = NullPtr
    THEN r
    ELSE DfsRightDone(dfs_walk(t, t.bheap[node].child[1],
                               SET_BIT_AT_POSITION(r.addr, bitpos), bitpos + 1, r.w),
                      bitpos)

DfsLeft(t, node, bitpos, r) ==
    IF r.ret # "SUCCESS"
    THEN r
    ELSE DfsRight(t, node, bitpos,
                  IF t.bheap[node].child[0] = NullPtr
                  THEN r
                  ELSE dfs_walk(t, t.bheap[node].child[0],
                                CLEAR_BIT_AT_POSITION(r.addr, bitpos), bitpos + 1, r.w))

DfsInVisit(t, node, bitpos, r) ==
    IF r.ret # "SUCCESS" \/ t.bheap[node].data = NULL
    THEN r
    ELSE DfsVisited(r.addr, WalkerCall(r.w, r.addr, bitpos, t.bheap[node].data))

RECURSIVE dfs_walk_inorder(_, _, _, _, _)
DfsInRight(t, node, bitpos, r) ==
    IF r.ret # "SUCCESS" \/ t.bheap[node].child[1] = NullPtr
    THEN r
    ELSE DfsRightDone(dfs_walk_inorder(t, t.bheap[node].child[1],
                                       SET_BIT_AT_POSITION(r.addr, bitpos),
                                       bitpos + 1, r.w),
                      bitpos)

dfs_walk_inorder(t, node, addr, bitpos, w) ==
    DfsInRight(t, node, bitpos,
               DfsInVisit(t, node, bitpos,
                          IF t.bheap[node].child[0] = NullPtr
                          THEN [ret |-> "SUCCESS", addr |-> addr, w |-> w]
                          ELSE dfs_walk_inorder(t, t.bheap[node].child[0],
                                                CLEAR_BIT_AT_POSITION(addr, bitpos),
                                                bitpos + 1, w)))

dfs_walk(t, node, addr, bitpos, w) ==
    DfsLeft(t, node, bitpos,
            IF t.bheap[node].data = NULL
            THEN [ret |-> "SUCCESS", addr |-> addr, w |-> w]
            ELSE DfsVisited(addr, WalkerCall(w, addr, bitpos, t.bheap[node].data)))

btrie_dfs_walk(t, w) == dfs_walk(t, t.btrie_root, ZeroAddr, 0, w)

\* lpm_walk_entry after btrie_dfs_walk: the default entry; w is the walker
\* after its call for it
WalkDefaultVisited(r, w) ==
    [ret |-> IF WalkerRet(w) # 0 THEN "EXOTIC" ELSE r.ret, w |-> w]

WalkDefault(t, r) ==
    IF t.default_data = NULL
    THEN [ret |-> r.ret, w |-> r.w]
    ELSE WalkDefaultVisited(r, WalkerCall(r.w, t.default_addr, t.default_masklen,
                                          t.default_data))

\* lpm_walk_entry: its return value and the walker as the walk leaves it
lpm_walk_entry(t, w) ==
    IF t = NoTable \/ w = NullWalker
    THEN [ret |-> "INVALID", w |-> w]
    ELSE IF t.btrie_root = NullPtr
         THEN [ret |-> "INTERNAL", w |-> w]
         ELSE WalkDefault(t, btrie_dfs_walk(t, w))

\* the calls after which the walker may return non-zero
Stops == 0 .. (MaxData + 1)

Walk(lim) ==
    /\ Ready(lim)
    /\ \E stop \in Stops :
           Call("walk", [ret |-> lpm_walk_entry(table, Walker(stop)).ret, t |-> table],
                bound, lim)

\* every sequence of at most MaxCalls add / delete / update_default /
\* delete_default / walk calls with one data value
NextWalk ==
    \/ AddEntry(Canonical, OneValue, {}, MaxData, MaxCalls)
    \/ DelEntry(Canonical, MaxCalls)
    \/ UpdateDefault(Inputs, MaxCalls)
    \/ DelDefault(MaxCalls)
    \/ Walk(MaxCalls)

SpecWalk == Init /\ [][NextWalk]_vars

\* what a walk with a walker that returns zero owes the caller: one visit for
\* each bound prefix, with its address, its length and its value
Owed(b) == {[addr |-> AddrOf(p), masklen |-> Len(p), data |-> b[p]] : p \in DOMAIN b}

VisitsOf(t) == lpm_walk_entry(t, Walker(NoStop)).w.visits

DefaultVisits(t) == IF t.default_data = NULL THEN 0 ELSE 1

\* C16: walk invokes the visitor exactly once for every binding that was
\* added and not deleted, then once more with the default prefix if the
\* default slot is set; every address passed to the visitor has all bits at
\* positions >= masklen equal to 0.
C16_WalkVisitsAll ==
    Alive =>
        /\ Len(VisitsOf(table)) = Cardinality(DOMAIN bound) + DefaultVisits(table)
        /\ \A v \in Owed(bound) :
               \E i \in 1 .. Cardinality(DOMAIN bound) : VisitsOf(table)[i] = v
        /\ table.default_data # NULL =>
               VisitsOf(table)[Len(VisitsOf(table))] =
                   [addr |-> table.default_addr, masklen |-> table.default_masklen,
                    data |-> table.default_data]
        /\ \A i \in 1 .. Len(VisitsOf(table)) :
               FillFrom(VisitsOf(table)[i].addr, VisitsOf(table)[i].masklen, 0) =
                   VisitsOf(table)[i].addr


\* the walk of t with a walker whose call number stop returns non-zero
WalkStopped(t, stop) == lpm_walk_entry(t, Walker(stop))

\* C17: if the visitor returns non-zero at some binding, walk returns EXOTIC
\* and does not invoke the visitor again, neither for later btrie bindings
\* nor for the default entry.
C17_WalkStopsAtNonZero ==
    Alive =>
        \A stop \in 1 .. Cardinality(DOMAIN BtrieValues(table)) :
            /\ WalkStopped(table, stop).ret = "EXOTIC"
            /\ Len(WalkStopped(table, stop).w.visits) = stop


\* ------------------------------------------------------------------------
\* Search with null arguments
\* ------------------------------------------------------------------------
\* lpm_search_table as the caller sees it: the value returned and what
\* *using_default holds after the call. NoTable is the null table, NullPtr
\* the null addr, flagged = FALSE the null using_default; was is what the
\* caller's variable held before the call.
lpm_search_table_call(t, addr, flagged, was) ==
    IF t = NoTable \/ addr = NullPtr \/ ~flagged
    THEN [data |-> NULL, using_default |-> was]
    ELSE lpm_search_table(t, addr)

\* what a variable the caller did not initialise may hold: 0, 1 or another
\* value
FlagBefore == 0 .. 2

\* C18: search writes used_default (0 or 1) on every call that passes a
\* non-null used_default pointer, including calls that return null because
\* the table or the address argument is null.
C18_SearchWritesFlag ==
    Alive =>
        \A t \in {table, NoTable}, addr \in AllAddrs \cup {NullPtr}, was \in FlagBefore :
            lpm_search_table_call(t, addr, TRUE, was).using_default \in {0, 1}


\* ------------------------------------------------------------------------
\* The default slot
\* ------------------------------------------------------------------------
\* t with the default slot set to a value and a prefix
WithDefault(t, data, addr, masklen) ==
    [t EXCEPT !.default_data = data, !.default_masklen = masklen, !.default_addr = addr]

\* what update_default(addr, masklen) owes on table t where b is bound
DefaultUpdated(t, b, in, r) ==
    IF PrefixBits(in.addr, in.masklen) \in DOMAIN b
    THEN /\ r.ret = "SUCCESS"
         /\ r.t = WithDefault(t, b[PrefixBits(in.addr, in.masklen)],
                              FillFrom(in.addr, in.masklen, 0), in.masklen)
    ELSE /\ r.ret = "NOTFOUND"
         /\ r.t = t

\* C19: update_default(addr, masklen) returns NOTFOUND and leaves the
\* default slot unchanged when no binding exists exactly at (addr, masklen);
\* otherwise it returns SUCCESS and sets the default slot to that binding's
\* value, its masklen and the address truncated to masklen bits with all
\* other bits zero, without changing btrie, mtrie or counters.
C19_UpdateDefault ==
    Alive =>
        \A in \in Inputs :
            DefaultUpdated(table, bound, in,
                           lpm_update_default_data(table, in.addr, in.masklen))


\* what delete_default owes on table t: the slot cleared and nothing else
\* changed, or NOTFOUND and nothing changed when the slot is empty
DefaultDeleted(t, r) ==
    IF t.default_data = NULL
    THEN r.ret = "NOTFOUND" /\ r.t = t
    ELSE r.ret = "SUCCESS" /\ r.t = WithDefault(t, NULL, ZeroAddr, 0)

\* find, and search of the addresses that lie in a bound prefix of length
\* minlen at least, answer on u what they answer on t
SameAnswers(t, u, b, minlen) ==
    /\ \A in \in Inputs :
           lpm_find_entry(u, in.addr, in.masklen) = lpm_find_entry(t, in.addr, in.masklen)
    /\ \A A \in AllAddrs :
           MatchingIn(b, A, minlen) # {} => lpm_search_table(u, A) = lpm_search_table(t, A)

ZeroRouteFrame(t, u) ==
    /\ u.mheap = t.mheap
    /\ u.hi256_table_base = t.hi256_table_base
    /\ u.btrie_root = t.btrie_root
    /\ DOMAIN u.bheap = DOMAIN t.bheap
    /\ \A n \in DOMAIN t.bheap :
           /\ u.bheap[n].child = t.bheap[n].child
           /\ n # t.btrie_root => u.bheap[n].data = t.bheap[n].data
    /\ u.stat.btrie_node_alloc_stat = t.stat.btrie_node_alloc_stat
    /\ u.stat.btrie_node_alloc_fail_stat = t.stat.btrie_node_alloc_fail_stat
    /\ u.stat.mtrie_block_alloc_stat = t.stat.mtrie_block_alloc_stat
    /\ u.stat.mtrie_block_alloc_fail_stat = t.stat.mtrie_block_alloc_fail_stat

\* the table when the allocator would refuse the next allocation
Starved(t) == [t EXCEPT !.budget = 0]

\* C21: add, update and delete with masklen 0 read and write only the btrie
\* root's value and the data counters: no mtrie entry value, no base pointer
\* and no mtrie block is changed, and no btrie node is allocated or freed
\* (no allocation is even asked for: the calls are made with an allocator
\* that would refuse).
C21_ZeroRouteFrame ==
    Alive =>
        \A addr \in AllAddrs \cup {NullPtr} :
            /\ ZeroRouteFrame(table, lpm_del_entry(Starved(table), addr, 0).t)
            /\ \A data \in Values :
                   /\ ZeroRouteFrame(table, lpm_add_entry(Starved(table), addr, 0, data).t)
                   /\ ZeroRouteFrame(table, lpm_update_entry(Starved(table), addr, 0, data).t)

\* the zero route was added to or beside a prefix that has a block of its
\* own below the root block
C21_Witness ==
    /\ op = "add" /\ ret = "SUCCESS"
    /\ << >> \in DOMAIN bound
    /\ table.bheap[table.btrie_root].data = bound[<< >>]
    /\ \E p \in DOMAIN bound : Len(p) > LPM_STRIDE
    /\ Cardinality(DOMAIN table.mheap) > 1


\* ------------------------------------------------------------------------
\* Create
\* ------------------------------------------------------------------------
\* the allocators of lpm_create_table: one that refuses the first, the
\* second or the third allocation, and one that refuses none
CreateBudgets == (0 .. 2) \cup {NoFail}

\* a process that has called lpm_create_table, with or without success
InitCreate ==
    /\ \E budget \in CreateBudgets :
           /\ table = lpm_create_table(budget)
           /\ ret = IF lpm_create_run(budget).ok THEN "SUCCESS" ELSE "RESOURCES"
    /\ op = "create"
    /\ bound = << >>
    /\ calls = 0
    /\ writer = NoWriter
    /\ reader = NoReader

\* with a table it goes on as in NextFail; without one it has nothing to call
SpecCreate == InitCreate /\ [][NextFail]_vars

\* what lpm_create_table owes
Created(r) ==
    IF r.ok
    THEN /\ r.held
         /\ DOMAIN r.t.bheap = {r.t.btrie_root}
         /\ r.t.bheap[r.t.btrie_root] = ZeroBtrieNode
         /\ DOMAIN r.t.mheap = {r.t.hi256_table_base}
         /\ r.t.mheap[r.t.hi256_table_base] = ZeroMtrieBlock
         /\ r.t.stat.btrie_node_alloc_stat = 1
         /\ r.t.stat.mtrie_block_alloc_stat = 1
         /\ r.t.stat.data_total = 0
         /\ r.t.default_data = NULL
         /\ r.t.default_masklen = 0
         /\ r.t.default_addr = ZeroAddr
    ELSE /\ ~r.held
         /\ DOMAIN r.t.bheap = {}
         /\ DOMAIN r.t.mheap = {}

\* C22: create returns a table whose btrie root (no value, no children) and
\* zero-filled mtrie root block both exist, with node counter 1, block
\* counter 1, data_total 0 and an empty default slot; if any of the three
\* allocations fails it returns null with nothing left allocated.
C22_CreateAllOrNothing ==
    /\ \A budget \in CreateBudgets :
           /\ Created(lpm_create_run(budget))
           /\ lpm_create_run(budget).ok <=> budget \notin 0 .. 2
    /\ op = "create" =>
           IF ret = "SUCCESS" THEN table = lpm_create_run(NoFail).t ELSE table = NoTable

\* create has returned null; among the runs that do so is the one that was
\* refused the root block after it had the root node
C22_Witness ==
    /\ op = "create" /\ ret = "RESOURCES" /\ table = NoTable
    /\ lpm_create_run(2).t.stat.btrie_node_alloc_stat = 0
    /\ lpm_create_run(2).t.stat.mtrie_block_alloc_fail_stat = 1


\* ------------------------------------------------------------------------
\* The mtrie entries and the bindings that cover them
\* ------------------------------------------------------------------------
\* the bits that lead to entry i of the block with byte path name
EntryBits(name, i) == PrefixBits(name \o << i >>, (Len(name) + 1) * LPM_STRIDE)

\* p is a prefix of the bit string s
IsPrefix(p, s) == Len(p) <= Len(s) /\ \A j \in 1 .. Len(p) : p[j] = s[j]

\* entry i of block name lies in a binding of b more specific than p
CoveredBeyond(b, p, name, i) ==
    \E r \in DOMAIN b :
        /\ Len(r) > Len(p)
        /\ IsPrefix(p, r)
        /\ IsPrefix(r, EntryBits(name, i))

\* the writes made for p that took t to u left the value of every entry that
\* lies in a binding of b more specific than p
KeptBeyond(t, u, b, p) ==
    \A name \in (DOMAIN t.mheap) \cap (DOMAIN u.mheap) :
        \A i \in Bytes :
            CoveredBeyond(b, p, name, i) => u.mheap[name][i].data = t.mheap[name][i].data

\* C26: no write performed on behalf of a prefix P (by add(P), update(P), or
\* the restoration step of a delete that refills with a less-specific P)
\* changes the value of an mtrie entry that is covered by a binding more
\* specific than P which is still in the table.
C26_MoreSpecificKept ==
    Alive =>
        \A in \in Canonical :
            /\ \A data \in Values :
                   /\ KeptBeyond(table, lpm_add_entry(table, in.addr, in.masklen, data).t,
                                 bound, PrefixBits(in.addr, in.masklen))
                   /\ KeptBeyond(table, lpm_update_entry(table, in.addr, in.masklen, data).t,
                                 bound, PrefixBits(in.addr, in.masklen))
            /\ \A p \in DOMAIN bound :
                   (/\ Len(p) < in.masklen
                    /\ IsPrefix(p, PrefixBits(in.addr, in.masklen))
                    /\ PrefixBits(in.addr, in.masklen) \in DOMAIN bound) =>
                       KeptBeyond(table, lpm_del_entry(table, in.addr, in.masklen).t,
                                  RemoveKeys(bound, {PrefixBits(in.addr, in.masklen)}), p)


\* ------------------------------------------------------------------------
\* The blocks a delete frees
\* ------------------------------------------------------------------------
\* the byte paths of the blocks on the way to q: the root block and one block
\* more for every stride q runs through to its last bit
PathBlocks(q) ==
    {SubSeq(AddrOf(q), 1, k) : k \in 0 .. ((Len(q) - 1) \div LPM_STRIDE)}

\* block name of t is still allocated in u, and still hangs below the entry
\* it hung below
BlockKept(t, u, name) ==
    /\ name \in DOMAIN u.mheap
    /\ name # << >> =>
           u.mheap[SubSeq(name, 1, Len(name) - 1)][name[Len(name)]].base =
               t.mheap[SubSeq(name, 1, Len(name) - 1)][name[Len(name)]].base

\* C27: delete(P) never frees or unlinks an mtrie block that lies on the
\* address path of a binding Q # P still in the table.
C27_DeleteKeepsPathBlocks ==
    Alive =>
        \A in \in Canonical :
            \A q \in (DOMAIN bound) \ {PrefixBits(in.addr, in.masklen)} :
                Len(q) >= 1 =>
                    \A name \in PathBlocks(q) \cap (DOMAIN table.mheap) :
                        BlockKept(table, lpm_del_entry(table, in.addr, in.masklen).t, name)


\* ------------------------------------------------------------------------
\* The fatal checks
\* ------------------------------------------------------------------------
\* the prefixes of SpecPrune with the longer chain on the right drawn out
\* into the third level
DeepInputs ==
    {in \in Canonical :
        PrefixBits(in.addr, in.masklen) \in
            {<<0>>, <<1>>, <<1, 1>>, <<1, 0, 1>>, <<1, 1, 1, 1, 1>>}}

\* every sequence, of any length, of add / update / delete calls for these
\* prefixes with one data value that leave at most MaxPrune prefixes bound
NextDeep ==
    \/ AddEntry(DeepInputs, OneValue, {}, MaxPrune, NoLimit)
    \/ UpdateEntry(DeepInputs, OneValue, NoLimit)
    \/ DelEntry(DeepInputs, NoLimit)

SpecDeep == Init /\ [][NextDeep]_vars

\* C28: no sequence of valid add / update / delete calls without allocation
\* failure reaches a fatal internal check: the delete_trie_block exit taken
\* when a block about to be freed still has an entry with non-null base, the
\* gen_combinations chain-inconsistency assert, or the btrie_del_appended
\* two-children assert. The other two ways a call can end the process are
\* left aside: the assert on data_total in delete, and the assert of
\* bit_at_position in btrie_add_node.
C28_NoFatalCheck ==
    Alive =>
        \A in \in Canonical :
            /\ table.stat.data_total > 0 =>
                   lpm_del_entry(table, in.addr, in.masklen).ret # "ABORT"
            /\ lpm_update_entry(table, in.addr, in.masklen, 1).ret # "ABORT"
            /\ lpm_add_entry(table, in.addr, in.masklen, 1).ret = "ABORT" =>
                   btrie_add_node(table, in.addr, in.masklen).ret = "ABORT"


\* ------------------------------------------------------------------------
\* The shape of the btrie
\* ------------------------------------------------------------------------
\* node n of t holds a value, or a node below it does
ValueAtOrBelow(t, n) ==
    \E m \in DOMAIN t.bheap : IsPrefix(n, m) /\ t.bheap[m].data # NULL

\* C29: after every completed operation (successful or failed), every btrie
\* node other than the root either holds a value or has a descendant that
\* holds a value: no value-less leaf or value-less chain remains after a
\* delete or a rolled-back add.
C29_NoValuelessChain ==
    Alive =>
        \A n \in DOMAIN table.bheap :
            n # table.btrie_root => ValueAtOrBelow(table, n)


\* ------------------------------------------------------------------------
\* The mtrie as the expansion of the btrie
\* ------------------------------------------------------------------------
\* the block with byte path name is reached from the root block of t through
\* the base pointers of the entries its bytes address
RECURSIVE Reached(_, _)
Reached(t, name) ==
    IF name = << >>
    THEN t.hi256_table_base = << >>
    ELSE /\ SubSeq(name, 1, Len(name) - 1) \in DOMAIN t.mheap
         /\ Reached(t, SubSeq(name, 1, Len(name) - 1))
         /\ t.mheap[SubSeq(name, 1, Len(name) - 1)][name[Len(name)]].base = name

\* the btrie nodes with a value whose prefix ends in the stride of the
\* blocks of level k and covers the bit string s
LevelCover(t, k, s) ==
    {n \in DOMAIN BtrieValues(t) :
        /\ k * LPM_STRIDE < Len(n)
        /\ Len(n) <= (k + 1) * LPM_STRIDE
        /\ IsPrefix(n, s)}

\* the value the longest of them holds, NULL when there is none
LevelValue(t, k, s) ==
    IF LevelCover(t, k, s) = {}
    THEN NULL
    ELSE t.bheap[CHOOSE n \in LevelCover(t, k, s) :
                     \A m \in LevelCover(t, k, s) : Len(m) <= Len(n)].data

\* C30: after every completed operation, for every mtrie block reachable at
\* level k through address bytes a0..a(k-1) and every index i, the entry's
\* value equals the value of the longest btrie binding whose masklen m
\* satisfies STRIDE * k < m <= STRIDE * k + STRIDE and whose prefix covers the
\* byte string a0..a(k-1),i, and is null when there is no such binding.
C30_MtrieIsExpansion ==
    Alive =>
        \A name \in DOMAIN table.mheap :
            Reached(table, name) =>
                \A i \in Bytes :
                    table.mheap[name][i].data =
                        LevelValue(table, Len(name), EntryBits(name, i))


\* ------------------------------------------------------------------------
\* A search that runs while a call is under way
\* ------------------------------------------------------------------------
\* The writer makes the stores of its call one at a time, in program order;
\* between any two of them the reader makes one load of its
\* lpm_search_table. The search reads the m-trie and the default slot only,
\* which add, update and delete do not write: table shows the m-trie as the
\* stores made so far leave it, and the rest as it was when the call began.
\* A search that began before the call, or ends after it, sees what one that
\* runs within it sees: the searches explored run within one call.
StepCalls == 3

\* the memory after the store s
ApplyStore(t, s) ==
    CASE s.kind = "malloc" -> [t EXCEPT !.mheap = (s.block :> ZeroMtrieBlock) @@ @]
      [] s.kind = "memset" -> [t EXCEPT !.mheap[s.block] = ZeroMtrieBlock]
      [] s.kind = "free" -> [t EXCEPT !.mheap = RemoveKeys(@, {s.block})]
      [] s.kind = "data" -> [t EXCEPT !.mheap[s.block][s.idx].data = s.data]
      [] s.kind = "enter" -> t
      [] OTHER -> [t EXCEPT !.mheap[s.block][s.idx].base = s.base]

\* the writer after the store s: raw are the blocks malloc gave and memset
\* has not zeroed yet, new the blocks this call allocated and holds
Stored(w, s) ==
    [w EXCEPT !.pc = @ + 1,
              !.raw = CASE s.kind = "malloc" -> @ \cup {s.block}
                        [] s.kind \in {"memset", "free"} -> @ \ {s.block}
                        [] OTHER -> @,
              !.new = CASE s.kind = "malloc" -> @ \cup {s.block}
                        [] s.kind = "free" -> @ \ {s.block}
                        [] OTHER -> @]

\* a call begins: r is what it will have done when it returns, b the
\* bindings then. A call that ends the process ends the reader with it and
\* is not drawn out.
Begins(name, r, b) ==
    /\ r.ret # "ABORT"
    /\ writer' = [busy |-> TRUE, name |-> name, ret |-> r.ret, pre |-> table,
                  t |-> r.t, bind |-> b, pc |-> 0, raw |-> {}, new |-> {}]
    /\ UNCHANGED << table, op, ret, bound, calls, reader >>

AddBegins(p, data, r, most) ==
    /\ (p \notin DOMAIN bound) => (Cardinality(DOMAIN bound) < most)
    /\ Begins("add", r, Bind(p, data, r))

BeginAdd(inputs, values, fails, most, lim) ==
    /\ Ready(lim)
    /\ ~writer.busy
    /\ \E in \in inputs, data \in values, f \in Budgets(fails) :
           AddBegins(PrefixBits(in.addr, in.masklen), data,
                     lpm_add_entry([table EXCEPT !.budget = f], in.addr, in.masklen,
                                   data),
                     most)

BeginUpdate(inputs, values, lim) ==
    /\ Ready(lim)
    /\ ~writer.busy
    /\ \E in \in inputs, data \in values :
           Begins("update", lpm_update_entry(table, in.addr, in.masklen, data),
                  Bind(PrefixBits(in.addr, in.masklen), data,
                       lpm_update_entry(table, in.addr, in.masklen, data)))

BeginDel(inputs, lim) ==
    /\ Ready(lim)
    /\ ~writer.busy
    /\ \E in \in inputs :
           Begins("delete", lpm_del_entry(table, in.addr, in.masklen),
                  Unbind(PrefixBits(in.addr, in.masklen),
                         lpm_del_entry(table, in.addr, in.masklen)))

\* the next store of the call
WriterStore ==
    /\ writer.busy
    /\ writer.pc < Len(writer.t.log)
    /\ table' = ApplyStore(table, writer.t.log[writer.pc + 1])
    /\ writer' = Stored(writer, writer.t.log[writer.pc + 1])
    /\ UNCHANGED << op, ret, bound, calls, reader >>

\* the call returns after its last store
WriterReturn(lim) ==
    /\ writer.busy
    /\ writer.pc = Len(writer.t.log)
    /\ reader.pc = "idle"
    /\ Returns(writer.name, [ret |-> writer.ret, t |-> writer.t], writer.bind, lim)
    /\ writer' = NoWriter
    /\ UNCHANGED reader

\* base = table->hi256_table_base; idx = addr
ReaderCall(addrs) ==
    /\ writer.busy
    /\ reader.pc = "idle"
    /\ \E addr \in addrs :
           reader' = [NoReader EXCEPT !.pc = "data", !.addr = addr,
                                      !.base = table.hi256_table_base]
    /\ UNCHANGED << table, op, ret, bound, calls, writer >>

\* the block the reader holds is allocated and zeroed
Held == reader.base \in DOMAIN table.mheap /\ reader.base \notin writer.raw

\* what a load from a block that is freed, or not zeroed yet, may give
Garbage == {NULL} \cup Values

\* the reader after the load of entry->data gave v
LoadedData(v) ==
    [reader EXCEPT !.pc = "base",
                   !.data = IF v # NULL THEN v ELSE @,
                   !.freed = @ \/ reader.base \notin DOMAIN table.mheap,
                   !.raw = @ \/ reader.base \in writer.raw]

\* if (entry->data != NULL) data = entry->data
ReaderData ==
    /\ reader.pc = "data"
    /\ IF Held
       THEN reader' = LoadedData(
                          table.mheap[reader.base][reader.addr[reader.level + 1]].data)
       ELSE \E v \in Garbage : reader' = LoadedData(v)
    /\ UNCHANGED << table, op, ret, bound, calls, writer >>

\* the reader after the load of entry->base gave b
LoadedBase(b) ==
    [reader EXCEPT !.pc = IF b = NullPtr \/ reader.level + 1 >= LPM_LEVEL_MAX
                          THEN "default" ELSE "data",
                   !.base = b,
                   !.level = @ + 1,
                   !.freed = @ \/ reader.base \notin DOMAIN table.mheap,
                   !.raw = @ \/ reader.base \in writer.raw]

\* idx++; base = entry->base. A pointer loaded from a block that is freed or
\* not zeroed is followed no further.
ReaderBase ==
    /\ reader.pc = "base"
    /\ reader' = LoadedBase(
                     IF Held
                     THEN table.mheap[reader.base][reader.addr[reader.level + 1]].base
                     ELSE NullPtr)
    /\ UNCHANGED << table, op, ret, bound, calls, writer >>

\* if (data == NULL) data = table->default_data
ReaderDefault ==
    /\ reader.pc = "default"
    /\ reader' = [reader EXCEPT !.pc = "done",
                                !.data = IF @ = NULL THEN table.default_data ELSE @]
    /\ UNCHANGED << table, op, ret, bound, calls, writer >>

\* return data
ReaderReturn ==
    /\ reader.pc = "done"
    /\ reader' = NoReader
    /\ UNCHANGED << table, op, ret, bound, calls, writer >>

\* the addresses searched: one under each of the prefixes of DeepInputs and
\* of their siblings
ReadAddrs ==
    {<<0, 0, 0>>, <<2, 0, 0>>, <<2, 2, 0>>, <<3, 0, 0>>, <<3, 3, 0>>, <<3, 3, 2>>}

\* at most StepCalls calls of add / update / delete for the prefixes of
\* DeepInputs, each drawn out into its stores, and searches beside them
NextStep ==
    \/ BeginAdd(DeepInputs, OneValue, {0, 1}, MaxPrune, StepCalls)
    \/ BeginUpdate(DeepInputs, Values, StepCalls)
    \/ BeginDel(DeepInputs, StepCalls)
    \/ WriterStore
    \/ WriterReturn(StepCalls)
    \/ ReaderCall(ReadAddrs)
    \/ ReaderData
    \/ ReaderBase
    \/ ReaderDefault
    \/ ReaderReturn

SpecStep == Init /\ [][NextStep]_vars

\* the stores of a call, made one by one, leave the m-trie the call leaves
StoresComplete ==
    (writer.busy /\ writer.pc = Len(writer.t.log)) => table.mheap = writer.t.mheap


\* the block whose entry points to the block name
Parent(name) == SubSeq(name, 1, Len(name) - 1)

\* C23: during add, a newly allocated mtrie block becomes reachable from the
\* root block only after it is zero-initialised and all deeper new blocks of
\* the same chain are already linked beneath it: at every store of the writer
\* the blocks reached from the root through base pointers are zeroed, and a
\* new block that is reached has the new block below it reached too.
C23_NewBlocksHookedBottomUp ==
    (writer.busy /\ writer.name = "add") =>
        \A name \in DOMAIN table.mheap :
            Reached(table, name) =>
                /\ name \notin writer.raw
                /\ \A n \in writer.new :
                       (n # << >> /\ Parent(n) = name /\ name \in writer.new) =>
                           Reached(table, n)

\* an add has allocated two blocks of one chain and has linked the deeper
\* one beneath the other, which is not reached yet
C23_Witness ==
    /\ writer.busy
    /\ writer.name = "add"
    /\ writer.raw = {}
    /\ \E n \in writer.new :
           /\ n # << >>
           /\ Parent(n) \in writer.new
           /\ table.mheap[Parent(n)][n[Len(n)]].base = n
           /\ ~Reached(table, Parent(n))

\* C24: a search interleaved, load by load and store by store, with one add,
\* update or delete never loads from an entry of a block the writer has
\* already freed.
C24_NoFreedRead == ~reader.freed

\* C25: a search interleaved with one add or update returns the value it
\* returns on the table before the call or the value it returns on the table
\* after the call.
C25_SearchSeesPreOrPost ==
    (reader.pc = "done" /\ writer.name \in {"add", "update"}) =>
        reader.data \in {lpm_search_table(writer.pre, reader.addr).data,
                         lpm_search_table(writer.t, reader.addr).data}

\* a search returned, before the last store of the call, the value the call
\* gives the address, which is not the value it had
C25_Witness ==
    /\ reader.pc = "done"
    /\ writer.name \in {"add", "update"}
    /\ writer.pc < Len(writer.t.log)
    /\ lpm_search_table(writer.pre, reader.addr).data
           # lpm_search_table(writer.t, reader.addr).data
    /\ reader.data = lpm_search_table(writer.t, reader.addr).data

\* ------------------------------------------------------------------------
\* The entries an add writes
\* ------------------------------------------------------------------------
\* the block of the prefix of masklen bits of addr: the one at level
\* (masklen - 1) >> 3 on the address path
OwnBlock(addr, masklen) == SubSeq(addr, 1, (masklen - 1) \div LPM_STRIDE)

\* entry i of the block name lies in the index range the prefix p covers in
\* its own block
InRange(p, addr, name, i) ==
    /\ name = OwnBlock(addr, Len(p))
    /\ IsPrefix(p, EntryBits(name, i))

\* the stores of the kind given that the call that left u made
StoresOf(u, kind) == {k \in 1 .. Len(u.log) : u.log[k].kind = kind}

\* what a successful add of the prefix p = addr/masklen with data, which
\* took t to u, may have written
AddFrame(t, u, p, addr, data) ==
    /\ DOMAIN t.mheap \subseteq DOMAIN u.mheap
    /\ \A name \in DOMAIN t.mheap, i \in Bytes :
           /\ u.mheap[name][i].data # t.mheap[name][i].data =>
                  InRange(p, addr, name, i) /\ u.mheap[name][i].data = data
           /\ t.mheap[name][i].base # NullPtr =>
                  u.mheap[name][i].base = t.mheap[name][i].base
    /\ \A k \in StoresOf(u, "data") :
           InRange(p, addr, u.log[k].block, u.log[k].idx) /\ u.log[k].data = data
    /\ \A k \in StoresOf(u, "base") :
           u.log[k].block \in DOMAIN t.mheap =>
               t.mheap[u.log[k].block][u.log[k].idx].base = NullPtr
    /\ Len(p) % LPM_STRIDE = 0 =>
           /\ Cardinality(StoresOf(u, "data")) = 1
           /\ u.mheap[OwnBlock(addr, Len(p))][addr[Len(p) \div LPM_STRIDE]].data = data

\* the frame of an add that returned r
AddFramed(t, r, p, addr, data) ==
    r.ret = "SUCCESS" => AddFrame(t, r.t, p, addr, data)

Referrers(t, name) ==
    {e \in (DOMAIN t.mheap) \X Bytes : t.mheap[e[1]][e[2]].base = name}

\* the btrie node n is reached from the root of t through child pointers
RECURSIVE NodeReached(_, _)
NodeReached(t, n) ==
    IF n = << >>
    THEN t.btrie_root = << >>
    ELSE /\ Parent(n) \in DOMAIN t.bheap
         /\ NodeReached(t, Parent(n))
         /\ t.bheap[Parent(n)].child[n[Len(n)]] = n

\* the mtrie of t is a tree of allocated blocks, and the counters of t count
\* the nodes and the blocks reached from the two roots
HeapsAreTrees(t) ==
    /\ \A name \in DOMAIN t.mheap :
           name # t.hi256_table_base => Cardinality(Referrers(t, name)) = 1
    /\ \A name \in DOMAIN t.mheap, i \in Bytes :
           t.mheap[name][i].base # NullPtr => t.mheap[name][i].base \in DOMAIN t.mheap
    /\ t.stat.btrie_node_alloc_stat
           = Cardinality({n \in DOMAIN t.bheap : NodeReached(t, n)})
    /\ t.stat.mtrie_block_alloc_stat
           = Cardinality({name \in DOMAIN t.mheap : Reached(t, name)})
    /\ t.stat.mtrie_block_alloc_stat >= 1

\* C32: after every completed operation the mtrie is a tree of allocated
\* blocks: every non-root block is referenced by exactly one entry's base,
\* every non-null base points to a block that has not been freed, and the
\* btrie-node and mtrie-block counters equal the numbers of nodes and blocks
\* reachable from the two roots (block counter >= 1).
C32_HeapsAreTrees ==
    (Alive /\ table # NoTable /\ op # "destroy" /\ ~writer.busy) => HeapsAreTrees(table)

\* an add was refused a block and has released what it had allocated, beside
\* a prefix that has a block of its own below the root block
C32_Witness ==
    /\ op = "add"
    /\ ret = "RESOURCES"
    /\ table.stat.mtrie_block_alloc_fail_stat = 1
    /\ table.stat.mtrie_block_alloc_stat = 2
    /\ \E p \in DOMAIN bound : Len(p) > LPM_STRIDE
    /\ \A p \in DOMAIN bound : Len(p) <= 2 * LPM_STRIDE

\* ------------------------------------------------------------------------
\* The address bits a call evaluates
\* ------------------------------------------------------------------------
\* the positions at which the while loop of btrie_add_node, at pos in the
\* node place, calls bit_at_position on the caller's address: pos at the
\* head of every round, and pos + 1 for append_bit where the child exists
RECURSIVE add_bit_reads(_, _, _, _, _)
add_bit_reads(t, addr, masklen, pos, place) ==
    IF pos >= masklen
    THEN {}
    ELSE IF place = NullPtr \/ t.bheap[place].child[bit_at_position(addr, pos)] = NullPtr
         THEN {pos} \cup add_bit_reads(t, addr, masklen, pos + 1, NullPtr)
         ELSE {pos, pos + 1}
                  \cup add_bit_reads(t, addr, masklen, pos + 1,
                                     t.bheap[place].child[bit_at_position(addr, pos)])

\* the positions btrie_add_node evaluates, with the one of its first lines
btrie_add_reads(t, addr, masklen) ==
    (IF masklen > 0 THEN {0} ELSE {})
        \cup add_bit_reads(t, addr, masklen, 0, t.btrie_root)

\* the positions the for loops of btrie_find_node and of __lpm_del_entry
\* evaluate: pos while pos < masklen and the node is there
RECURSIVE find_bit_reads(_, _, _, _, _)
find_bit_reads(t, addr, masklen, pos, node) ==
    IF pos >= masklen \/ node = NullPtr
    THEN {}
    ELSE {pos} \cup find_bit_reads(t, addr, masklen, pos + 1,
                                   t.bheap[node].child[bit_at_position(addr, pos)])

\* the bytes of the caller's buffer that hold the bit positions S
BytesRead(S) == {pos \div LPM_STRIDE : pos \in S}

\* the positions S lie below masklen, so within the first
\* ceil(masklen / 8) bytes and within the address width
BitsWithin(S, masklen) ==
    /\ \A pos \in S : pos < masklen /\ BitPosInRange(pos)
    /\ \A b \in BytesRead(S) : b < (masklen + LPM_STRIDE - 1) \div LPM_STRIDE

\* C33: for every masklen from 0 to the address width and every table, add,
\* update, delete and find evaluate address bits only at positions
\* p < masklen: bit_at_position is never called with p at or beyond the
\* address width, and no byte beyond the first ceil(masklen / 8) bytes of the
\* caller's buffer is read.
C33_BitsBelowMasklen ==
    Alive =>
        \A in \in Canonical :
            /\ BitsWithin(btrie_add_reads(table, in.addr, in.masklen), in.masklen)
            /\ BitsWithin(find_bit_reads(table, in.addr, in.masklen, 0, table.btrie_root),
                          in.masklen)

\* what holds of the loops that look a prefix up: update, delete and find
FindBitsBelowMasklen ==
    Alive =>
        \A in \in Canonical :
            BitsWithin(find_bit_reads(table, in.addr, in.masklen, 0, table.btrie_root),
                       in.masklen)

\* ------------------------------------------------------------------------
\* What delete returns
\* ------------------------------------------------------------------------
\* C34: on a valid table with valid arguments delete returns only SUCCESS or
\* NOTFOUND: it never returns INTERNAL or RESOURCES after it has cleared the
\* target's btrie value and decremented the data counters. Stated for an
\* allocator that grants every allocation and for one that refuses every one.
C34_DeleteReturns ==
    Alive =>
        \A in \in Inputs :
            /\ lpm_del_entry(table, in.addr, in.masklen).ret
                   \notin {"INTERNAL", "RESOURCES"}
            /\ lpm_del_entry(Starved(table), in.addr, in.masklen).ret
                   \notin {"INTERNAL", "RESOURCES"}

\* ------------------------------------------------------------------------
\* The default slot under add, update and delete
\* ------------------------------------------------------------------------
\* a search that found nothing in the mtrie returned the default value of t
FallbackKept(t, s) == s.using_default = 1 => s.data = t.default_data

\* the default slot of u is that of t, and so is what a search of u falls
\* back to
DefaultKept(t, u) ==
    /\ u.default_data = t.default_data
    /\ u.default_addr = t.default_addr
    /\ u.default_masklen = t.default_masklen
    /\ \A A \in ReadAddrs : FallbackKept(t, lpm_search_table(u, A))

\* C35: add, update and delete never modify the default slot: after
\* update_default(P), a later update(P, v') or delete(P) leaves the default
\* value, address and masklen as they were, so that the search fallback
\* still returns the value captured at update_default time.
C35_DefaultSlotFrame ==
    Alive =>
        \A in \in Canonical :
            /\ DefaultKept(table, lpm_del_entry(table, in.addr, in.masklen).t)
            /\ \A data \in Values :
                   /\ DefaultKept(table,
                                  lpm_add_entry(table, in.addr, in.masklen, data).t)
                   /\ DefaultKept(table,
                                  lpm_update_entry(table, in.addr, in.masklen, data).t)

\* the prefix that update_default promoted has been deleted since, and the
\* default slot still holds its value, address and masklen
C35_Witness ==
    /\ op = "delete"
    /\ ret = "SUCCESS"
    /\ table.default_data # NULL
    /\ table.default_masklen >= 1
    /\ PrefixBits(table.default_addr, table.default_masklen) \notin DOMAIN bound
    /\ \E A \in AllAddrs :
           /\ lpm_search_table(table, A).using_default = 1
           /\ lpm_search_table(table, A).data = table.default_data

\* ------------------------------------------------------------------------
\* The blocks a search follows
\* ------------------------------------------------------------------------
\* the rounds of the while (base != NULL) loop of lpm_search_table: each
\* reads one byte of the address, the round after LPM_LEVEL_MAX the byte
\* behind it
RECURSIVE search_rounds(_, _, _, _)
search_rounds(t, addr, base, level) ==
    IF base = NullPtr
    THEN level
    ELSE IF level >= LPM_LEVEL_MAX
         THEN level + 1
         ELSE search_rounds(t, addr, t.mheap[base][addr[level + 1]].base, level + 1)

\* the blocks that hold the prefixes of masklen w at most
LevelsOf(w) == (w + LPM_STRIDE - 1) \div LPM_STRIDE

\* the longest masklen among the prefixes a set of inputs holds
Widest(S) ==
    CHOOSE w \in 0 .. LPM_MASKLEN_MAX :
        /\ \A in \in S : in.masklen <= w
        /\ \E in \in S : in.masklen = w

SearchEnds ==
    Alive =>
        \A A \in AllAddrs :
            search_rounds(table, A, table.hi256_table_base, 0) <= LPM_LEVEL_MAX

\* ------------------------------------------------------------------------
\* The order of the walk
\* ------------------------------------------------------------------------
\* the prefix a visit shows the walker
VisitBits(v) == PrefixBits(v.addr, v.masklen)

\* the visits of a walk that come from the btrie: all but the one for the
\* default entry
BtrieVisits(t) == SubSeq(VisitsOf(t), 1, Len(VisitsOf(t)) - DefaultVisits(t))

\* p and q part at bit k, p to the left and q to the right
PartAt(p, q, k) ==
    /\ k <= Len(p)
    /\ k <= Len(q)
    /\ \A j \in 1 .. (k - 1) : p[j] = q[j]
    /\ p[k] = 0
    /\ q[k] = 1

\* p comes before q in the pre-order of the btrie
PreOrder(p, q) ==
    \/ Len(p) < Len(q) /\ IsPrefix(p, q)
    \/ \E k \in 1 .. LPM_MASKLEN_MAX : PartAt(p, q, k)

\* the visits vs are the nodes of t that hold a value, each node once, in
\* pre-order
WalkedInPreOrder(t, vs) ==
    /\ {VisitBits(vs[i]) : i \in 1 .. Len(vs)} = DOMAIN BtrieValues(t)
    /\ \A i \in 1 .. Len(vs) : \A j \in (i + 1) .. Len(vs) :
           PreOrder(VisitBits(vs[i]), VisitBits(vs[j]))

\* C37: walk visits bindings in pre-order of the btrie: a prefix is visited
\* before every more-specific prefix that extends it, and all prefixes
\* extending a node with next bit 0 are visited before those extending it
\* with next bit 1.
C37_WalkPreOrder == Alive => WalkedInPreOrder(table, BtrieVisits(table))

\* a walk of three prefixes: one, then one that extends it with next bit 0,
\* then one that extends it with next bit 1
C37_Witness ==
    /\ Alive
    /\ op = "add"
    /\ ret = "SUCCESS"
    /\ Len(BtrieVisits(table)) >= 3
    /\ \E i \in 1 .. (Len(BtrieVisits(table)) - 2) :
           /\ Len(VisitBits(BtrieVisits(table)[i])) >= 1
           /\ Len(VisitBits(BtrieVisits(table)[i]))
                  < Len(VisitBits(BtrieVisits(table)[i + 1]))
           /\ IsPrefix(VisitBits(BtrieVisits(table)[i]),
                       VisitBits(BtrieVisits(table)[i + 1]))
           /\ IsPrefix(VisitBits(BtrieVisits(table)[i]),
                       VisitBits(BtrieVisits(table)[i + 2]))
           /\ PartAt(VisitBits(BtrieVisits(table)[i + 1]),
                     VisitBits(BtrieVisits(table)[i + 2]),
                     Len(VisitBits(BtrieVisits(table)[i])) + 1)

\* ------------------------------------------------------------------------
\* The depth of the prefix expansion
\* ------------------------------------------------------------------------
\* the entries into __lpm_prefix_expansion of the call that left u, and the
\* first of them, the top-level one
Enters(u) == StoresOf(u, "enter")

Top(u) == CHOOSE k \in Enters(u) : \A j \in Enters(u) : k <= j

\* the entry k of u is for the node of its bit position, was made from the
\* entry for the node's parent unless it is the top-level one, and lies at
\* most LPM_STRIDE - 1 nodes below the top-level one, within its stride
EnterBounded(u, k, top) ==
    /\ u.log[k].idx = Len(u.log[k].block) - 1
    /\ IsPrefix(u.log[top].block, u.log[k].block)
    /\ k # top =>
           \E j \in Enters(u) :
               /\ j < k
               /\ u.log[j].block = SubSeq(u.log[k].block, 1, Len(u.log[k].block) - 1)
    /\ u.log[k].idx - u.log[top].idx <= LPM_STRIDE - 1
    /\ u.log[k].idx \div LPM_STRIDE = u.log[top].idx \div LPM_STRIDE

\* the stores of u from the top-level entry on that write a value, allocate a
\* block or hook one: none in a block below the level of the top-level entry
StoresBounded(u, top) ==
    \A k \in (top + 1) .. Len(u.log) :
        /\ u.log[k].kind = "data" =>
               Len(u.log[k].block) = u.log[top].idx \div LPM_STRIDE
        /\ u.log[k].kind \in {"malloc", "memset"} =>
               Len(u.log[k].block) <= u.log[top].idx \div LPM_STRIDE
        /\ (u.log[k].kind = "base" /\ u.log[k].base # NullPtr) =>
               Len(u.log[k].block) < u.log[top].idx \div LPM_STRIDE

ExpansionBounded(u) ==
    Enters(u) # {} =>
        /\ \A k \in Enters(u) : EnterBounded(u, k, Top(u))
        /\ StoresBounded(u, Top(u))

\* C38: every top-level prefix-expansion call terminates with recursion depth
\* at most LPM_STRIDE - 1: the recursion advances one bit per step and always
\* stops at a stride-boundary bit position, so it never writes to or descends
\* into a block of a deeper mtrie level. Stated of the expansion each add,
\* update and delete makes.
C38_ExpansionDepth ==
    Alive =>
        \A in \in Canonical, data \in Values :
            /\ ExpansionBounded(lpm_add_entry(table, in.addr, in.masklen, data).t)
            /\ ExpansionBounded(lpm_update_entry(table, in.addr, in.masklen, data).t)
            /\ ExpansionBounded(lpm_del_entry(table, in.addr, in.masklen).t)

\* the entries of u reach LPM_STRIDE - 1 nodes below the top-level one
ReachesBoundary(u) ==
    /\ Enters(u) # {}
    /\ \E k \in Enters(u) : u.log[k].idx - u.log[Top(u)].idx = LPM_STRIDE - 1

\* a prefix was added above a longer one: its expansion, the one its update
\* repeats, went down to the stride boundary
C38_Witness ==
    /\ Alive
    /\ op = "add"
    /\ ret = "SUCCESS"
    /\ \E in \in Canonical :
           /\ in.masklen >= 1
           /\ PrefixBits(in.addr, in.masklen) \in DOMAIN bound
           /\ \E q \in DOMAIN bound :
                  /\ Len(q) > in.masklen + 1
                  /\ IsPrefix(PrefixBits(in.addr, in.masklen), q)
           /\ ReachesBoundary(
                  lpm_update_entry(table, in.addr, in.masklen,
                                   bound[PrefixBits(in.addr, in.masklen)]).t)

====
